---- MODULE Spec2Model ----
(***************************************************************************)
(* Triangular-arbitrage core: route simulator, triangle orientation        *)
(* solver and the constant-product (cpmm) quote adapter.                   *)
(*                                                                         *)
(* Amounts are atomic integers that exceed the range of TLC's integers,    *)
(* so they are kept as little-endian sequences of decimal digits ("big     *)
(* naturals"); decimal.js values are a coefficient and a power of ten and  *)
(* every arithmetic operation rounds to DecimalPrecision significant       *)
(* digits, half up, as decimal.js does with its default configuration.     *)
(***************************************************************************)
EXTENDS Integers, Sequences, FiniteSets

\* ------------------------------------------------------------------------
\* Bounds of the model
\* ------------------------------------------------------------------------

\* reserves of the small cpmm pools range over 0..MaxReserve
MaxReserve == 3

\* input amounts of the small cpmm quotes range over 0..MaxAmount
MaxAmount == 3

\* mints are numbered 1..NumMints
NumMints == 3

\* routeLegs and legs arrays hold at most MaxLegs hops
MaxLegs == 3

\* enrichReserves and validatePools are given at most MaxPools pools
MaxPools == 2

\* ------------------------------------------------------------------------
\* State
\* ------------------------------------------------------------------------

VARIABLES
    cpPoolData,   \* the pool record handed to the constructor
    cpAdapter,    \* the adapter object, once constructed
    cpCall,       \* arguments of the last quote call
    cpQuote,      \* what the last quote call produced
    cpBack        \* what quoting cpQuote's output the other way produced

cpVars == <<cpPoolData, cpAdapter, cpCall, cpQuote, cpBack>>

VARIABLES
    svPools,      \* the three pool records handed to the solver
    svCalls,      \* how the solver was entered last: none, solve, validate
    svTriangle,   \* what solveTriangleOrientation returned
    svError       \* what validateTriangle threw, "" if nothing

svVars == <<svPools, svCalls, svTriangle, svError>>

VARIABLES
    rtPools,      \* the `pools` argument
    rtArgs,       \* tokenA/B/C, dxAtomic, maxImpactPct
    rtPc,         \* the line the call has reached, or done / thrown
    rtDxA,        \* const dxA = D(dxAtomic).floor()
    rtTriangle,   \* const triangle = await validateTriangle(pools)
    rtResult,     \* the value the call returned
    rtError,      \* the error the call threw (rejected with)
    rtQuoteLog    \* the simulateLeg calls made so far: <<leg, dxAtomic>>

rtVars == <<rtPools, rtArgs, rtPc, rtDxA, rtTriangle, rtResult, rtError,
            rtQuoteLog>>

VARIABLES
    flCall,       \* the function entered and its arguments
    flPc,         \* idle, the loop or call it has reached, done or thrown
    flHop,        \* the loop index i (1-based)
    flHopIxs,     \* perHopIxs / ixs: the hops whose instructions were built
    flRouteLegs,  \* the routeLegs executeFlashloan prepared for the builder
    flBuilderCalls, \* the callbackIxs of each flashloanInstructionBuilder call
    flResult      \* what the call returned or threw

flVars == <<flCall, flPc, flHop, flHopIxs, flRouteLegs, flBuilderCalls,
            flResult>>

VARIABLES
    ldPools,        \* the pools array of enrichReserves, mutated in place
    ldOptions,      \* options.forceRefresh and options.batchSize
    ldPc,           \* position inside enrichReserves
    ldPubkeyList,   \* pubkeyList: the deduplicated vaults to read
    ldVaultMap,     \* vaultMap: vault -> the pools and sides that use it
    ldSdkPools,     \* sdkPools: indices of the pools left to SDK hydration
    ldI,            \* i of fetchAccountsBatched: first index of the batch
    ldRetries,      \* retries of fetchAccountsBatched
    ldResults,      \* results of fetchAccountsBatched
    ldAttempted,    \* batches handed to connection.getMultipleAccountsInfo
    ldRateLimiter,  \* the module-level rateLimiter
    ldResponse      \* what the connection answered to the last read

ldVars == <<ldPools, ldOptions, ldPc, ldPubkeyList, ldVaultMap, ldSdkPools,
            ldI, ldRetries, ldResults, ldAttempted, ldRateLimiter,
            ldResponse>>

VARIABLES
    vpPools,        \* the pools array given to validatePools
    vpPc,           \* "idle" before the call, "done" after it
    vpValid,        \* the array validatePools returns
    vpIssues        \* the issues counters of validatePools

vpVars == <<vpPools, vpPc, vpValid, vpIssues>>

VARIABLES
    ntPool,         \* the argument p of normalizeType
    ntPc,           \* "idle" before the call, "done" after it
    ntResult        \* what normalizeType returned, "" before the call

ntVars == <<ntPool, ntPc, ntResult>>

\* the shared rate limiter under concurrent fetchAccountsBatched runs
VARIABLES
    rlClock,      \* Date.now()
    rlLimiter,    \* the module-level rateLimiter object
    rlRun         \* per run: position, the local `now`, timer, loop counters

rlVars == <<rlClock, rlLimiter, rlRun>>

\* the leg simulator (simulateLeg, sdk.quote, the stats counters)
VARIABLES
    slStats,      \* the module-level stats object
    slCompleted,  \* completed calls with floored amount > 0 since the reset
    slCall,       \* the arguments of the last simulateLeg call
    slProbe,      \* what the first sdk.quote of that call did
    slQuote,      \* what its second sdk.quote did
    slResult      \* what the call returned

slVars == <<slStats, slCompleted, slCall, slProbe, slQuote, slResult>>

vars == <<cpVars, svVars, rtVars, flVars, ldVars, vpVars, ntVars, rlVars, slVars>>

\* the variables an operation of one component leaves alone
exceptCp == <<svVars, rtVars, flVars, ldVars, vpVars, ntVars, rlVars, slVars>>
exceptSv == <<cpVars, rtVars, flVars, ldVars, vpVars, ntVars, rlVars, slVars>>
exceptRt == <<cpVars, svVars, flVars, ldVars, vpVars, ntVars, rlVars, slVars>>
exceptFl == <<cpVars, svVars, rtVars, ldVars, vpVars, ntVars, rlVars, slVars>>
exceptLd == <<cpVars, svVars, rtVars, flVars, vpVars, ntVars, rlVars, slVars>>
exceptVp == <<cpVars, svVars, rtVars, flVars, ldVars, ntVars, rlVars, slVars>>
exceptNt == <<cpVars, svVars, rtVars, flVars, ldVars, vpVars, rlVars, slVars>>
exceptRl == <<cpVars, svVars, rtVars, flVars, ldVars, vpVars, ntVars, slVars>>
exceptSl == <<cpVars, svVars, rtVars, flVars, ldVars, vpVars, ntVars, rlVars>>

\* ------------------------------------------------------------------------
\* Program constants
\* ------------------------------------------------------------------------

\* decimal.js default `precision` (significant digits kept by mul/div/add)
DecimalPrecision == 20

\* CPMMAdapter constructor: feeBps used when the pool record carries none
DefaultFeeBps == 25

\* quoteExactIn / quoteFastExactIn default slippageBps parameter
DefaultSlippageBps == 50

\* denominator of a basis-point rate
BpsDenominator == 10000

\* poolLoader.js handle429: Math.min(60000, 250 * Math.pow(2, Math.min(10, n)))
BackoffCapMs == 60000
BackoffBaseMs == 250
BackoffMaxExponent == 10

\* poolLoader.js parseSplTokenAmount: the u64 amount ends at byte 72
TokenAccountMinLength == 72

\* poolLoader.js fetchAccountsBatched: maxRetries
maxRetries == 3

\* poolLoader.js enrichReserves: default of options.batchSize
DefaultBatchSize == 100

\* ------------------------------------------------------------------------
\* Big naturals: little-endian digit sequences, <<>> is zero.  Carries are
\* computed by look-ahead so that evaluation needs no deep recursion.
\* ------------------------------------------------------------------------

RECURSIVE NatDigits(_)
NatDigits(n) ==
    IF n = 0 THEN <<>> ELSE <<n % 10>> \o NatDigits(n \div 10)

MaxOf(S) == CHOOSE x \in S : \A y \in S : y <= x

Strip(a) ==
    LET nz == {i \in 1..Len(a) : a[i] # 0}
    IN  IF nz = {} THEN <<>> ELSE SubSeq(a, 1, MaxOf(nz))

Digit(a, i) == IF i >= 1 /\ i <= Len(a) THEN a[i] ELSE 0

\* carry into position i of a + b: the nearest lower position whose digit
\* sum is not 9 decides
CarryIn(a, b, i) ==
    LET dec == {j \in 1..(i - 1) : Digit(a, j) + Digit(b, j) # 9}
    IN  IF dec = {} THEN 0
        ELSE IF Digit(a, MaxOf(dec)) + Digit(b, MaxOf(dec)) >= 10 THEN 1
        ELSE 0

BigAdd(a, b) ==
    LET n == (IF Len(a) > Len(b) THEN Len(a) ELSE Len(b)) + 1
    IN  Strip([i \in 1..n |->
                 (Digit(a, i) + Digit(b, i) + CarryIn(a, b, i)) % 10])

\* borrow into position i of a - b: the nearest lower position with
\* different digits decides
BorrowIn(a, b, i) ==
    LET dec == {j \in 1..(i - 1) : Digit(a, j) # Digit(b, j)}
    IN  IF dec = {} THEN 0
        ELSE IF Digit(a, MaxOf(dec)) < Digit(b, MaxOf(dec)) THEN 1
        ELSE 0

\* a - b for a >= b
BigSub(a, b) ==
    Strip([i \in 1..Len(a) |->
             (Digit(a, i) - Digit(b, i) - BorrowIn(a, b, i) + 10) % 10])

BigLess(a, b) ==
    IF Len(a) # Len(b) THEN Len(a) < Len(b)
    ELSE LET dec == {j \in 1..Len(a) : a[j] # b[j]}
         IN  dec # {} /\ a[MaxOf(dec)] < b[MaxOf(dec)]

BigLeq(a, b) == ~BigLess(b, a)

\* a * 10^k
ShiftLeft(a, k) ==
    IF a = <<>> \/ k <= 0 THEN a ELSE [i \in 1..k |-> 0] \o a

\* floor(a / 10^k)
ShiftRight(a, k) ==
    IF k <= 0 THEN a
    ELSE IF k >= Len(a) THEN <<>>
    ELSE SubSeq(a, k + 1, Len(a))

\* column k of the schoolbook product: sum of a[i] * b[k+1-i] for i <= n
RECURSIVE ColumnSum(_, _, _, _)
ColumnSum(a, b, k, n) ==
    IF n = 0 THEN 0
    ELSE Digit(a, n) * Digit(b, k + 1 - n) + ColumnSum(a, b, k, n - 1)

\* the column sums are below 10^4; their four decimal digits are added as
\* four shifted numbers
BigMul(a, b) ==
    IF a = <<>> \/ b = <<>> THEN <<>>
    ELSE LET cols == [k \in 1..(Len(a) + Len(b)) |-> ColumnSum(a, b, k, Len(a))]
             part(p) == Strip([k \in 1..Len(cols) |-> (cols[k] \div p) % 10])
         IN  BigAdd(BigAdd(part(1), ShiftLeft(part(10), 1)),
                    BigAdd(ShiftLeft(part(100), 2), ShiftLeft(part(1000), 3)))

\* largest digit k with mults[k+1] = k*b <= cur (cur < 10*b)
FitCount(cur, mults) ==
    MaxOf({k \in 0..9 : BigLeq(mults[k + 1], cur)})

\* long division, most significant digit first: digit i of a is brought
\* down to the remainder r, q collects the quotient digits.  The guard
\* makes q and r values before the next digit is taken.  Once the remainder
\* is zero and only the z appended zeros of a are left, the quotient ends in
\* zeros.
RECURSIVE DivLoop(_, _, _, _, _, _)
DivLoop(a, mults, z, i, q, r) ==
    IF i = 0 THEN q
    ELSE IF Len(q) >= 0 /\ Len(r) >= 0
    THEN IF r = <<>> /\ i <= z
         THEN [k \in 1..i |-> 0] \o q
         ELSE LET cur == Strip(<<a[i]>> \o r)
                  d   == FitCount(cur, mults)
              IN  DivLoop(a, mults, z, i - 1, <<d>> \o q,
                          BigSub(cur, mults[d + 1]))
    ELSE q

\* the multiples 0*b .. 9*b
Multiples(b) ==
    << <<>>, b, BigMul(<<2>>, b), BigMul(<<3>>, b), BigMul(<<4>>, b),
       BigMul(<<5>>, b), BigMul(<<6>>, b), BigMul(<<7>>, b),
       BigMul(<<8>>, b), BigMul(<<9>>, b) >>

\* floor(a * 10^z / b) for b # 0
BigDivShifted(a, z, b) ==
    IF a = <<>> THEN <<>>
    ELSE Strip(DivLoop(ShiftLeft(a, z), Multiples(b), z, Len(a) + z,
                       <<>>, <<>>))

\* floor(a / b) for b # 0
BigDiv(a, b) == BigDivShifted(a, 0, b)

\* ------------------------------------------------------------------------
\* decimal.js values: coefficient c (big natural) times 10^e, non-negative
\* ------------------------------------------------------------------------

Dec(c, e) == [c |-> c, e |-> e]

\* the same value without low-order zeros in the coefficient
Normal(c, e) ==
    LET nz == {i \in 1..Len(c) : c[i] # 0}
        lowest == CHOOSE i \in nz : \A j \in nz : i <= j
    IN  IF nz = {} THEN Dec(<<>>, 0)
        ELSE Dec(SubSeq(c, lowest, Len(c)), e + lowest - 1)

DecOfInt(n) == Normal(NatDigits(n), 0)

\* decimal.js finalise(): keep DecimalPrecision significant digits, half up
DecRound(c, e) ==
    IF Len(c) <= DecimalPrecision THEN Normal(c, e)
    ELSE LET k    == Len(c) - DecimalPrecision
             kept == SubSeq(c, k + 1, Len(c))
         IN  Normal(IF c[k] >= 5 THEN BigAdd(kept, <<1>>) ELSE kept, e + k)

DecMul(a, b) == DecRound(BigMul(a.c, b.c), a.e + b.e)

\* coefficients of a and b brought to the smaller exponent
AlignedC(a, b) == ShiftLeft(a.c, a.e - (IF a.e < b.e THEN a.e ELSE b.e))

DecAdd(a, b) ==
    DecRound(BigAdd(AlignedC(a, b), AlignedC(b, a)),
             IF a.e < b.e THEN a.e ELSE b.e)

\* a - b for a >= b
DecMinus(a, b) ==
    DecRound(BigSub(AlignedC(a, b), AlignedC(b, a)),
             IF a.e < b.e THEN a.e ELSE b.e)

\* the quotient is developed to at least DecimalPrecision + 1 digits
DecDiv(a, b) ==
    IF a.c = <<>> THEN Dec(<<>>, 0)
    ELSE LET want == DecimalPrecision + 1 + Len(b.c) - Len(a.c)
             s    == IF want > 0 THEN want ELSE 0
         IN  DecRound(BigDivShifted(a.c, s, b.c), a.e - b.e - s)

\* Decimal.prototype.floor() as a big natural
DecFloor(a) ==
    IF a.e >= 0 THEN ShiftLeft(a.c, a.e) ELSE ShiftRight(a.c, 0 - a.e)

DecGtZero(a) == Strip(a.c) # <<>>

\* ------------------------------------------------------------------------
\* CPMMAdapter (Q_cpmm.fixed.js)
\* ------------------------------------------------------------------------


\* an optional field: absent (null/undefined) or present with a value
NoValue == [has |-> FALSE, v |-> <<>>]
Some(x) == [has |-> TRUE, v |-> x]
NoInt == [has |-> FALSE, v |-> 0]

RECURSIVE BigOf(_)
\* the big natural written most significant digit first
BigOf(s) == IF s = <<>> THEN <<>> ELSE BigOf(Tail(s)) \o <<Head(s)>>

\* a pool and an amount of everyday magnitude (6-decimals tokens)
LargeReserveX == BigOf(<<3, 5, 5, 8, 6, 6, 2, 4, 9, 4, 4>>)
LargeReserveY == BigOf(<<6, 5, 2, 3, 6, 4, 8, 8, 1>>)
LargeAmount   == BigOf(<<1, 7, 5, 3, 4, 5, 4, 2, 5, 5>>)

\* a pool and an amount beyond the digits a Decimal operation keeps: reserves
\* of 10^(2 * DecimalPrecision) and an amount of 10^DecimalPrecision + 5
HugeReserve == ShiftLeft(<<1>>, 2 * DecimalPrecision)
HugeAmount  == BigAdd(ShiftLeft(<<1>>, DecimalPrecision), <<5>>)

SmallReserveChoices ==
    {NoValue} \cup {Some(NatDigits(n)) : n \in 0..MaxReserve}

\* the reserves of a pool: any two small ones, or one of the two big pools
ReservePairChoices ==
    (SmallReserveChoices \X SmallReserveChoices)
    \cup {<<Some(LargeReserveX), Some(LargeReserveY)>>,
          <<Some(HugeReserve), Some(HugeReserve)>>}

AmountChoices ==
    {NoValue} \cup {Some(NatDigits(n)) : n \in 0..MaxAmount}
              \cup {Some(LargeAmount), Some(HugeAmount)}

FeeBpsChoices == {NoInt, Some(0), Some(25)}

DecimalsChoices == {NoInt, Some(6)}

SlippageChoices == {NoInt, Some(100)}

PoolDataChoices ==
    {[xReserve |-> r[1], yReserve |-> r[2], feeBps |-> f,
      baseDecimals |-> d, quoteDecimals |-> Some(6)] :
        r \in ReservePairChoices, f \in FeeBpsChoices, d \in DecimalsChoices}

NoAdapter ==
    [built |-> FALSE, xReserveRaw |-> NoValue, yReserveRaw |-> NoValue,
     feeBps |-> 0, tokenXDecimals |-> NoInt, tokenYDecimals |-> NoInt]

NoCall ==
    [method |-> "none", inAmountAtomic |-> NoValue, swapForY |-> TRUE,
     slippageBps |-> NoInt]

NoQuote ==
    [status |-> "none", error |-> "", inAmountRaw |-> <<>>,
     outAmountRaw |-> <<>>, minOutAmountRaw |-> <<>>, feeBps |-> 0,
     swapForY |-> TRUE]

\* constructor: `pd.feeBps ?? ... ?? 25`, reserves `?? null`
FeeBpsOf(pd) == IF pd.feeBps.has THEN pd.feeBps.v ELSE DefaultFeeBps

CpmmConstructed(pd) ==
    [built |-> TRUE,
     xReserveRaw |-> pd.xReserve, yReserveRaw |-> pd.yReserve,
     feeBps |-> FeeBpsOf(pd),
     tokenXDecimals |-> pd.baseDecimals, tokenYDecimals |-> pd.quoteDecimals]

\* toDec(v): a present atomic amount as a Decimal
toDec(v) == Normal(v, 0)

\* new Decimal(bps).div(10000)
BpsRate(bps) == DecDiv(DecOfInt(bps), DecOfInt(BpsDenominator))

\* lines 925-937: the unrounded output amount `out`
CpmmOut(x, y, inAmt, feeBps, swapForY) ==
    LET feeRate     == BpsRate(feeBps)
        oneMinusFee == DecMinus(DecOfInt(1), feeRate)
        inAfterFee  == DecMul(inAmt, oneMinusFee)
    IN  IF swapForY
        THEN DecDiv(DecMul(inAfterFee, y), DecAdd(x, inAfterFee))
        ELSE DecDiv(DecMul(inAfterFee, x), DecAdd(y, inAfterFee))

\* lines 940-941: minOut = out * (1 - slip), floored
CpmmMinOut(out, slippageBps) ==
    DecFloor(DecMul(out, DecMinus(DecOfInt(1), BpsRate(slippageBps))))

Thrown(msg) == [NoQuote EXCEPT !.status = "thrown", !.error = msg]

\* quoteExactIn(inAmountAtomic, swapForY = true, slippageBps = 50)
quoteExactIn(ad, inAmountAtomic, swapForY, slippageBps) ==
    IF ~inAmountAtomic.has THEN Thrown("inAmountAtomic required")
    ELSE IF ~(ad.xReserveRaw.has /\ ad.yReserveRaw.has)
    THEN Thrown("CPMM reserves missing")
    ELSE IF ~(DecGtZero(toDec(ad.xReserveRaw.v))
              /\ DecGtZero(toDec(ad.yReserveRaw.v)))
    THEN Thrown("CPMM reserves are zero")
    ELSE IF ~DecGtZero(toDec(inAmountAtomic.v))
    THEN Thrown("inAmountAtomic must be > 0")
    ELSE IF ~(ad.tokenXDecimals.has /\ ad.tokenYDecimals.has)
    THEN Thrown("CPMMAdapter missing decimals")
    ELSE LET slip == IF slippageBps.has THEN slippageBps.v
                     ELSE DefaultSlippageBps
             out  == CpmmOut(toDec(ad.xReserveRaw.v), toDec(ad.yReserveRaw.v),
                             toDec(inAmountAtomic.v), ad.feeBps, swapForY)
         IN  [status |-> "success", error |-> "",
              inAmountRaw |-> inAmountAtomic.v,
              outAmountRaw |-> DecFloor(out),
              minOutAmountRaw |-> CpmmMinOut(out, slip),
              feeBps |-> ad.feeBps,
              swapForY |-> swapForY]

\* quoteFastExactIn delegates to quoteExactIn
quoteFastExactIn(ad, inAmountAtomic, swapForY, slippageBps) ==
    quoteExactIn(ad, inAmountAtomic, swapForY, slippageBps)

CpmmInit ==
    /\ cpPoolData \in PoolDataChoices
    /\ cpAdapter = NoAdapter
    /\ cpCall = NoCall
    /\ cpQuote = NoQuote
    /\ cpBack = NoQuote

\* new CPMMAdapter(connection, poolAddress, poolData)
CpmmConstruct ==
    /\ ~cpAdapter.built
    /\ cpAdapter' = CpmmConstructed(cpPoolData)
    /\ UNCHANGED <<cpPoolData, cpCall, cpQuote, cpBack>>
    /\ UNCHANGED exceptCp

CpmmQuoteExactIn ==
    /\ cpAdapter.built
    /\ cpCall.method = "none"
    /\ \E amt \in AmountChoices, dir \in BOOLEAN, slip \in SlippageChoices :
         /\ cpCall' = [method |-> "quoteExactIn", inAmountAtomic |-> amt,
                       swapForY |-> dir, slippageBps |-> slip]
         /\ cpQuote' = quoteExactIn(cpAdapter, amt, dir, slip)
    /\ UNCHANGED <<cpPoolData, cpAdapter, cpBack>>
    /\ UNCHANGED exceptCp

CpmmQuoteFastExactIn ==
    /\ cpAdapter.built
    /\ cpCall.method = "none"
    /\ \E amt \in AmountChoices, dir \in BOOLEAN, slip \in SlippageChoices :
         /\ cpCall' = [method |-> "quoteFastExactIn", inAmountAtomic |-> amt,
                       swapForY |-> dir, slippageBps |-> slip]
         /\ cpQuote' = quoteFastExactIn(cpAdapter, amt, dir, slip)
    /\ UNCHANGED <<cpPoolData, cpAdapter, cpBack>>
    /\ UNCHANGED exceptCp

\* a second quoteExactIn on the same adapter (its reserves are what the
\* constructor stored): the first quote's outAmountRaw, the other way
CpmmQuoteBack ==
    /\ cpCall.method = "quoteExactIn"
    /\ cpQuote.status = "success"
    /\ cpBack.status = "none"
    /\ cpBack' = quoteExactIn(cpAdapter, Some(cpQuote.outAmountRaw),
                              ~cpCall.swapForY, cpCall.slippageBps)
    /\ UNCHANGED <<cpPoolData, cpAdapter, cpCall, cpQuote>>
    /\ UNCHANGED exceptCp


\* ------------------------------------------------------------------------
\* Triangle orientation solver (triArbitrage.js)
\* ------------------------------------------------------------------------


Mints == 1..NumMints

\* an element of the pools array; `defined` is FALSE for a hole or an index
\* beyond the array's end
Pool(b, q) == [defined |-> TRUE, baseMint |-> b, quoteMint |-> q]
UndefinedPool == [defined |-> FALSE, baseMint |-> 0, quoteMint |-> 0]

NullTriangle == [kind |-> "null", startMint |-> 0, inMints |-> <<>>]
TypeErrorResult == [kind |-> "TypeError", startMint |-> 0, inMints |-> <<>>]
Triangle(s, m) == [kind |-> "triangle", startMint |-> s, inMints |-> m]

\* Hop without its `else if (curr === pool.quoteMint)` branch
HopBaseOnly(pool, curr) ==
    IF curr = pool.baseMint
    THEN [ok |-> TRUE, inMint |-> pool.baseMint, next |-> pool.quoteMint]
    ELSE [ok |-> FALSE, inMint |-> 0, next |-> 0]

\* one `if / else if / else return null` step of tryStart: the mint taken
\* as the hop's input and the mint the walk moves on to
Hop(pool, curr) ==
    IF curr = pool.baseMint
    THEN [ok |-> TRUE, inMint |-> pool.baseMint, next |-> pool.quoteMint]
    ELSE IF curr = pool.quoteMint
    THEN [ok |-> TRUE, inMint |-> pool.quoteMint, next |-> pool.baseMint]
    ELSE [ok |-> FALSE, inMint |-> 0, next |-> 0]

\* tryStart without its final `if (curr !== startMint) return null`
tryStartUnclosed(p1, p2, p3, startMint) ==
    IF ~p1.defined THEN TypeErrorResult
    ELSE LET h1 == Hop(p1, startMint) IN
    IF ~h1.ok THEN NullTriangle
    ELSE IF ~p2.defined THEN TypeErrorResult
    ELSE LET h2 == Hop(p2, h1.next) IN
    IF ~h2.ok THEN NullTriangle
    ELSE IF ~p3.defined THEN TypeErrorResult
    ELSE LET h3 == Hop(p3, h2.next) IN
    IF ~h3.ok THEN NullTriangle
    ELSE Triangle(startMint, <<h1.inMint, h2.inMint, h3.inMint>>)

\* tryStart(startMint); reading a mint of an undefined pool is a TypeError
tryStart(p1, p2, p3, startMint) ==
    IF ~p1.defined THEN TypeErrorResult
    ELSE LET h1 == Hop(p1, startMint) IN
    IF ~h1.ok THEN NullTriangle
    ELSE IF ~p2.defined THEN TypeErrorResult
    ELSE LET h2 == Hop(p2, h1.next) IN
    IF ~h2.ok THEN NullTriangle
    ELSE IF ~p3.defined THEN TypeErrorResult
    ELSE LET h3 == Hop(p3, h2.next) IN
    IF ~h3.ok THEN NullTriangle
    ELSE IF h3.next # startMint THEN NullTriangle
    ELSE Triangle(startMint, <<h1.inMint, h2.inMint, h3.inMint>>)

\* return tryStart(p1.baseMint) || tryStart(p1.quoteMint)
solveTriangleOrientation(pools) ==
    IF ~pools[1].defined THEN TypeErrorResult
    ELSE LET first == tryStart(pools[1], pools[2], pools[3], pools[1].baseMint)
         IN  IF first.kind # "null" THEN first
             ELSE tryStart(pools[1], pools[2], pools[3], pools[1].quoteMint)

\* validateTriangle: throws when the solver returns null
validateTriangleError(pools) ==
    LET t == solveTriangleOrientation(pools)
    IN  IF t.kind = "TypeError" THEN "TypeError"
        ELSE IF t.kind = "null" THEN "Invalid Triangle Orientation"
        ELSE ""

PoolChoices == {Pool(b, q) : b \in Mints, q \in Mints}

SolveInit ==
    /\ svPools \in [1..3 -> PoolChoices]
    /\ svCalls = "none"
    /\ svTriangle = NullTriangle
    /\ svError = ""

\* a call of solveTriangleOrientation(pools)
SolveCall ==
    /\ svCalls' = "solve"
    /\ svTriangle' = solveTriangleOrientation(svPools)
    /\ svError' = ""
    /\ UNCHANGED svPools
    /\ UNCHANGED exceptSv

\* a call of validateTriangle(pools)
ValidateCall ==
    /\ svCalls' = "validate"
    /\ svTriangle' = solveTriangleOrientation(svPools)
    /\ svError' = validateTriangleError(svPools)
    /\ UNCHANGED svPools
    /\ UNCHANGED exceptSv


\* ------------------------------------------------------------------------
\* Triangular route simulator (triArbitrage.js, simulateTriangularRoute)
\* ------------------------------------------------------------------------


\* a pool of the route: its mints and what the quote adapter answers for it,
\* sdkRate = 0 for no quote, otherwise dy = floor(dx * sdkRate / 2)
RoutePool(b, q, rate) ==
    [defined |-> TRUE, baseMint |-> b, quoteMint |-> q, sdkRate |-> rate]
UndefinedRoutePool ==
    [defined |-> FALSE, baseMint |-> 0, quoteMint |-> 0, sdkRate |-> 0]

SdkRates == {0, 1, 2, 3}

\* mint pairs of three pools: closed cycles in both orientations and open ones
RouteMintTriples ==
    { << <<1, 2>>, <<2, 3>>, <<3, 1>> >>,
      << <<2, 1>>, <<2, 3>>, <<1, 3>> >>,
      << <<1, 2>>, <<1, 2>>, <<1, 2>> >>,
      << <<1, 2>>, <<3, 3>>, <<3, 1>> >> }

RouteItems ==
    { [i \in 1..3 |-> RoutePool(t[i][1], t[i][2], r[i])] :
        t \in RouteMintTriples, r \in [1..3 -> SdkRates] }

\* pools is absent, an Array of 2..4 elements, or an iterable array-like
\* object of 3 elements, whose `length` an index assignment leaves alone
RoutePoolsChoices ==
    {[kind |-> "missing", len |-> 0, lenNow |-> 0,
      items |-> [i \in 1..3 |-> UndefinedRoutePool]]}
    \cup {[kind |-> k, len |-> 3, lenNow |-> 3, items |-> it] :
            k \in {"array", "arraylike"}, it \in RouteItems}
    \cup {[kind |-> "array", len |-> 4, lenNow |-> 4, items |-> it] :
            it \in {x \in RouteItems : \A i \in 1..3 : x[i].sdkRate = 2}}
    \cup {[kind |-> "array", len |-> 2, lenNow |-> 2,
           items |-> [it EXCEPT ![3] = UndefinedRoutePool]] :
            it \in {x \in RouteItems : \A i \in 1..3 : x[i].sdkRate = 2}}

\* dxAtomic: absent, NaN, a non-numeric string, or a number given in halves
DxChoices ==
    {[kind |-> "missing", halves |-> 0], [kind |-> "NaN", halves |-> 0],
     [kind |-> "text", halves |-> 0]}
    \cup {[kind |-> "num", halves |-> h] : h \in {-2, 0, 5, 8}}

\* maxImpactPct: omitted (the default 5 applies), null, NaN, a non-numeric
\* string, or a number
MaxImpactChoices == {"omitted", "null", "NaN", "text", "num"}

\* execute stands for `execute: true` with a connection, where a payer
\* keypair is configured
RouteArgsChoices ==
    [tokensAreStrings : BOOLEAN, dxAtomic : DxChoices,
     maxImpactPct : MaxImpactChoices, execute : BOOLEAN]

\* exec is "txSignature" or "execError" on a result that carries one
NoResult ==
    [kind |-> "none", ok |-> FALSE, reason |-> "", legs |-> <<>>,
     outAtomic |-> 0, profitAtomic |-> 0,
     profitPct |-> [num |-> 0, den |-> 1], exec |-> "none"]

Failure(reason) ==
    [NoResult EXCEPT !.kind = "returned", !.ok = FALSE, !.reason = reason]

\* simulateLeg: the input is floored and must be positive, the leg succeeds
\* when the adapter quotes a positive dyAtomic; with the math fallback
\* disabled every other case is a failure
simulateLeg(pool, dxAtomic) ==
    IF dxAtomic <= 0
    THEN [ok |-> FALSE, reason |-> "dxAtomic <= 0", dxAtomic |-> 0,
          dyAtomic |-> 0]
    ELSE IF (dxAtomic * pool.sdkRate) \div 2 > 0
    THEN [ok |-> TRUE, reason |-> "", dxAtomic |-> dxAtomic,
          dyAtomic |-> (dxAtomic * pool.sdkRate) \div 2]
    ELSE [ok |-> FALSE, reason |-> "no-simulation-method", dxAtomic |-> 0,
          dyAtomic |-> 0]

RouteInit ==
    /\ rtPools \in RoutePoolsChoices
    /\ rtArgs \in RouteArgsChoices
    /\ rtPc = "l352"
    /\ rtDxA = [nan |-> FALSE, v |-> 0]
    /\ rtTriangle = NullTriangle
    /\ rtResult = NoResult
    /\ rtError = ""
    /\ rtQuoteLog = <<>>

RouteThrow(err) ==
    /\ rtPc' = "thrown"
    /\ rtError' = err

RouteReturn(res) ==
    /\ rtPc' = "done"
    /\ rtResult' = res

\* `pools[3] = pools` on an Array of fewer than 4 elements makes its length 4
LengthAfterAlias(pools) ==
    IF pools.kind = "array" /\ pools.len < 4 THEN 4 ELSE pools.len

\* line 352: pools[1], pools[2], pools[3] = pools;
AliasPools ==
    /\ rtPc = "l352"
    /\ IF rtPools.kind = "missing"
       THEN /\ RouteThrow("TypeError")
            /\ UNCHANGED rtPools
       ELSE /\ rtPools' = [rtPools EXCEPT !.lenNow = LengthAfterAlias(rtPools)]
            /\ rtPc' = "l353"
            /\ UNCHANGED rtError
    /\ UNCHANGED <<rtArgs, rtDxA, rtTriangle, rtResult, rtQuoteLog>>
    /\ UNCHANGED exceptRt

\* D(x).floor(): null/undefined become 0, NaN stays NaN
FlooredDx(dx) ==
    IF dx.kind = "NaN" THEN [nan |-> TRUE, v |-> 0]
    ELSE IF dx.kind = "num" THEN [nan |-> FALSE, v |-> dx.halves \div 2]
    ELSE [nan |-> FALSE, v |-> 0]

\* line 353: const dxA = D(dxAtomic).floor();
FloorDx ==
    /\ rtPc = "l353"
    /\ IF rtArgs.dxAtomic.kind = "text"
       THEN /\ RouteThrow("DecimalError")
            /\ UNCHANGED rtDxA
       ELSE /\ rtDxA' = FlooredDx(rtArgs.dxAtomic)
            /\ rtPc' = "l355"
            /\ UNCHANGED rtError
    /\ UNCHANGED <<rtPools, rtArgs, rtTriangle, rtResult, rtQuoteLog>>
    /\ UNCHANGED exceptRt

\* lines 355-358: const triangle = await validateTriangle(pools);
ValidateTriangle ==
    /\ rtPc = "l355"
    /\ rtTriangle' = solveTriangleOrientation(rtPools.items)
    /\ IF validateTriangleError(rtPools.items) # ""
       THEN RouteThrow(validateTriangleError(rtPools.items))
       ELSE /\ rtPc' = "l359"
            /\ UNCHANGED rtError
    /\ UNCHANGED <<rtPools, rtArgs, rtDxA, rtResult, rtQuoteLog>>
    /\ UNCHANGED exceptRt

\* lines 359-361: if (!pools || pools.length !== 3)
CheckPools ==
    /\ rtPc = "l359"
    /\ IF rtPools.lenNow # 3
       THEN RouteReturn(Failure("need-3-pools"))
       ELSE /\ rtPc' = "l362"
            /\ UNCHANGED rtResult
    /\ UNCHANGED <<rtPools, rtArgs, rtDxA, rtTriangle, rtError, rtQuoteLog>>
    /\ UNCHANGED exceptRt

\* lines 362-364: every token must be a string
CheckMints ==
    /\ rtPc = "l362"
    /\ IF ~rtArgs.tokensAreStrings
       THEN RouteReturn(Failure("missing-mints"))
       ELSE /\ rtPc' = "l365"
            /\ UNCHANGED rtResult
    /\ UNCHANGED <<rtPools, rtArgs, rtDxA, rtTriangle, rtError, rtQuoteLog>>
    /\ UNCHANGED exceptRt

\* lines 365-367: dxAtomic == null || Number.isNaN(Number(dxAtomic))
CheckDx ==
    /\ rtPc = "l365"
    /\ IF rtArgs.dxAtomic.kind \in {"missing", "NaN", "text"}
       THEN RouteReturn(Failure("missing-dx"))
       ELSE /\ rtPc' = "l368"
            /\ UNCHANGED rtResult
    /\ UNCHANGED <<rtPools, rtArgs, rtDxA, rtTriangle, rtError, rtQuoteLog>>
    /\ UNCHANGED exceptRt

\* lines 368-370: maxImpactPct == null || Number.isNaN(maxImpactPct); an
\* omitted argument has become 5, Number.isNaN of a string is false
CheckMaxImpact ==
    /\ rtPc = "l368"
    /\ IF rtArgs.maxImpactPct \in {"null", "NaN"}
       THEN RouteReturn(Failure("missing-max-impact"))
       ELSE /\ rtPc' = "l373"
            /\ UNCHANGED rtResult
    /\ UNCHANGED <<rtPools, rtArgs, rtDxA, rtTriangle, rtError, rtQuoteLog>>
    /\ UNCHANGED exceptRt

\* lines 373-380: the argument object of the first simulateLeg call reads
\* leg2.dyAtomic while `const leg2` (line 382) is not initialised yet, so
\* the call is never made
SimulateLeg1 ==
    /\ rtPc = "l373"
    /\ RouteThrow("ReferenceError")
    /\ UNCHANGED <<rtPools, rtArgs, rtDxA, rtTriangle, rtResult, rtQuoteLog>>
    /\ UNCHANGED exceptRt

\* ------------------------------------------------------------------------
\* Flashloan transaction builder and executor
\* (flashloanSwapInstructions.fixed.js, swapExecutor.fixed.js,
\*  triArbitrage.js executeFlashloan)
\* ------------------------------------------------------------------------

\* a hop of routeLegs as the builder reads it; dexType "" is an absent one
RouteLeg(amountIn, minOut, dexType, binArrays) ==
    [amountInAtomic |-> amountIn, minOutAtomic |-> minOut,
     dexType |-> dexType, binArrays |-> binArrays]

RouteLegChoices ==
    { RouteLeg(Some(4), Some(6), "METEORA_DLMM", TRUE),
      RouteLeg(NoInt, Some(6), "METEORA_DLMM", TRUE),
      RouteLeg(Some(4), NoInt, "METEORA_DLMM", TRUE),
      RouteLeg(Some(4), Some(6), "", TRUE),
      RouteLeg(Some(4), Some(6), "RAYDIUM_CPMM", TRUE),
      RouteLeg(Some(4), Some(6), "METEORA_DLMM", FALSE) }

RECURSIVE SeqsUpTo(_, _)
\* the sequences over S of length at most n
SeqsUpTo(S, n) ==
    IF n = 0 THEN {<<>>}
    ELSE LET shorter == SeqsUpTo(S, n - 1)
         IN  shorter \cup {Append(q, x) : q \in shorter, x \in S}

\* flashloanInstructionBuilder: not a function, a function that throws, or
\* one that returns the borrow instruction
BuilderChoices == {"absent", "throws", "ok"}

\* an option a caller may leave out
NoBool == [has |-> FALSE, v |-> FALSE]

\* the opts of executeRoute: skipPreflight, maxRetries, skipConfirm
BroadcastOpts(preflight, retries, confirm) ==
    [skipPreflight |-> preflight, maxRetries |-> retries,
     skipConfirm |-> confirm]

\* `opts = {}`, the default of the parameter
EmptyOpts == BroadcastOpts(NoBool, NoInt, NoBool)

\* triArbitrage.js, lines 19-23
FLASHLOAN_OPTS == BroadcastOpts(Some(TRUE), Some(0), Some(TRUE))

OptsChoices ==
    {EmptyOpts, FLASHLOAN_OPTS, BroadcastOpts(Some(TRUE), Some(0), NoBool)}

\* `opts.maxRetries ?? 2`
DefaultSendRetries == 2

\* the options sendTransaction is called with, lines 51-54:
\* Boolean(opts.skipPreflight) and opts.maxRetries ?? 2
NotSent == [sent |-> FALSE, skipPreflight |-> FALSE, maxRetries |-> 0]

SendConfig(opts) ==
    [sent |-> TRUE,
     skipPreflight |-> opts.skipPreflight.has /\ opts.skipPreflight.v,
     maxRetries |-> IF opts.maxRetries.has THEN opts.maxRetries.v
                    ELSE DefaultSendRetries]

\* `!opts.skipConfirm`, line 56
WantsConfirm(opts) == ~(opts.skipConfirm.has /\ opts.skipConfirm.v)

NoFlCall ==
    [fn |-> "none", connection |-> FALSE, payer |-> FALSE, legs |-> <<>>,
     builder |-> "absent", sdkFailsAt |-> 0, loanAmount |-> 0,
     opts |-> EmptyOpts]

NoFlResult ==
    [kind |-> "none", error |-> "", callbackIxs |-> <<>>,
     sent |-> NotSent, confirmed |-> FALSE]

FlThrown(msg) == [NoFlResult EXCEPT !.kind = "thrown", !.error = msg]

FlashInit ==
    /\ flCall = NoFlCall
    /\ flPc = "idle"
    /\ flHop = 0
    /\ flHopIxs = <<>>
    /\ flRouteLegs = <<>>
    /\ flBuilderCalls = <<>>
    /\ flResult = NoFlResult

\* buildMeteoraDlmmSwapIxs: "" when the hop's instructions are built,
\* otherwise the message of the error thrown; sdkFails stands for a throw of
\* the Meteora SDK itself (not installed, pool not found, no swap builder)
buildMeteoraDlmmSwapIxs(hop, connection, sdkFails) ==
    IF ~connection THEN "Meteora DLMM: connection required"
    ELSE IF ~hop.amountInAtomic.has
    THEN "Meteora DLMM: hop.amountInAtomic required"
    ELSE IF ~hop.minOutAtomic.has
    THEN "Meteora DLMM: hop.minOutAtomic required"
    ELSE IF sdkFails THEN "Meteora DLMM: SDK failure"
    ELSE IF ~hop.binArrays THEN "Meteora DLMM: missing bin arrays"
    ELSE ""

\* buildSwapIxForPool that sends a hop of any dex to the Meteora builder
buildSwapIxForPoolAnyDex(hop, connection, sdkFails) ==
    IF hop.dexType = "" THEN "buildSwapIxForPool: hop.dexType/hop.dex required"
    ELSE buildMeteoraDlmmSwapIxs(hop, connection, sdkFails)

\* buildSwapIxForPool: only a dex naming METEORA or DLMM has a builder
buildSwapIxForPool(hop, connection, sdkFails) ==
    IF hop.dexType = "" THEN "buildSwapIxForPool: hop.dexType/hop.dex required"
    ELSE IF hop.dexType = "METEORA_DLMM"
    THEN buildMeteoraDlmmSwapIxs(hop, connection, sdkFails)
    ELSE "buildSwapIxForPool: unsupported dex"

\* one iteration of the hop loop of buildFlashloanTx and of executeRoute
HopError(hop, connection, sdkFails) ==
    IF ~hop.amountInAtomic.has THEN "amountInAtomic missing"
    ELSE IF ~hop.minOutAtomic.has THEN "minOutAtomic missing"
    ELSE buildSwapIxForPool(hop, connection, sdkFails)

FlThrow(msg) ==
    /\ flPc' = "thrown"
    /\ flResult' = FlThrown(msg)

\* buildFlashloanTx, lines 99-102: the argument checks
BuildFlashloanTxEnter ==
    /\ flPc = "idle"
    /\ \E c \in BOOLEAN, py \in BOOLEAN, b \in BuilderChoices,
          legs \in SeqsUpTo(RouteLegChoices, MaxLegs), f \in 0..MaxLegs :
         /\ flCall' = [fn |-> "buildFlashloanTx", connection |-> c,
                       payer |-> py, legs |-> legs, builder |-> b,
                       sdkFailsAt |-> f, loanAmount |-> 4,
                       opts |-> EmptyOpts]
         /\ IF ~c THEN FlThrow("connection required")
            ELSE IF ~py THEN FlThrow("payerKeypair required")
            ELSE IF legs = <<>> THEN FlThrow("routeLegs[] required")
            ELSE IF b = "absent"
            THEN FlThrow("flashloanInstructionBuilder function required")
            ELSE /\ flPc' = "buildLoop"
                 /\ UNCHANGED flResult
    /\ flHop' = 1
    /\ UNCHANGED <<flHopIxs, flRouteLegs, flBuilderCalls>>
    /\ UNCHANGED exceptFl

\* buildFlashloanTx, lines 105-114: one hop of the loop
BuildFlashloanTxHop ==
    /\ flPc = "buildLoop"
    /\ LET err == HopError(flCall.legs[flHop], flCall.connection,
                           flCall.sdkFailsAt = flHop)
       IN  IF err # ""
           THEN /\ FlThrow(err)
                /\ UNCHANGED <<flHop, flHopIxs>>
           ELSE /\ flHopIxs' = Append(flHopIxs, flHop)
                /\ flHop' = flHop + 1
                /\ flPc' = IF flHop = Len(flCall.legs) THEN "buildFlash"
                           ELSE "buildLoop"
                /\ UNCHANGED flResult
    /\ UNCHANGED <<flCall, flRouteLegs, flBuilderCalls>>
    /\ UNCHANGED exceptFl

\* buildFlashloanTx, lines 116-130: the borrow instruction around the hop
\* instructions, and the transaction returned
BuildFlashloanTxFlash ==
    /\ flPc = "buildFlash"
    /\ flBuilderCalls' = Append(flBuilderCalls, flHopIxs)
    /\ IF flCall.builder = "throws"
       THEN FlThrow("flashloan provider failure")
       ELSE /\ flPc' = "done"
            /\ flResult' = [NoFlResult EXCEPT !.kind = "tx",
                                              !.callbackIxs = flHopIxs]
    /\ UNCHANGED <<flCall, flHop, flHopIxs, flRouteLegs>>
    /\ UNCHANGED exceptFl

\* executeRoute, lines 25-27: the argument checks
executeRouteEntryError(connection, payer, routeLegs) ==
    IF ~connection THEN "executeRoute: connection required"
    ELSE IF ~payer THEN "executeRoute: payer required"
    ELSE IF routeLegs = <<>> THEN "executeRoute: routeLegs required"
    ELSE ""

ExecuteRouteEnter ==
    /\ flPc = "idle"
    /\ \E c \in BOOLEAN, py \in BOOLEAN, o \in OptsChoices,
          legs \in SeqsUpTo(RouteLegChoices, MaxLegs), f \in 0..MaxLegs :
         /\ flCall' = [fn |-> "executeRoute", connection |-> c,
                       payer |-> py, legs |-> legs, builder |-> "absent",
                       sdkFailsAt |-> f, loanAmount |-> 0, opts |-> o]
         /\ IF executeRouteEntryError(c, py, legs) # ""
            THEN FlThrow(executeRouteEntryError(c, py, legs))
            ELSE /\ flPc' = "routeLoop"
                 /\ UNCHANGED flResult
    /\ flHop' = 1
    /\ UNCHANGED <<flHopIxs, flRouteLegs, flBuilderCalls>>
    /\ UNCHANGED exceptFl

\* executeRoute, lines 32-39: one hop of the loop
ExecuteRouteHop ==
    /\ flPc = "routeLoop"
    /\ LET err == HopError(flCall.legs[flHop], flCall.connection,
                           flCall.sdkFailsAt = flHop)
       IN  IF err # ""
           THEN /\ FlThrow(err)
                /\ UNCHANGED <<flHop, flHopIxs>>
           ELSE /\ flHopIxs' = Append(flHopIxs, flHop)
                /\ flHop' = flHop + 1
                /\ flPc' = IF flHop = Len(flCall.legs) THEN "routeSend"
                           ELSE "routeLoop"
                /\ UNCHANGED flResult
    /\ UNCHANGED <<flCall, flRouteLegs, flBuilderCalls>>
    /\ UNCHANGED exceptFl

\* executeRoute, lines 41-59: the transaction of the hop instructions is
\* signed and sent; with skipConfirm the signature is returned at once
ExecuteRouteSend ==
    /\ flPc = "routeSend"
    /\ LET sent == [NoFlResult EXCEPT !.callbackIxs = flHopIxs,
                                      !.sent = SendConfig(flCall.opts)]
       IN IF WantsConfirm(flCall.opts)
          THEN /\ flPc' = "routeConfirm"
               /\ flResult' = sent
          ELSE /\ flPc' = "done"
               /\ flResult' = [sent EXCEPT !.kind = "signature"]
    /\ UNCHANGED <<flCall, flHop, flHopIxs, flRouteLegs, flBuilderCalls>>
    /\ UNCHANGED exceptFl

\* executeRoute, lines 56-59: confirmTransaction resolves and the signature
\* is returned, or it rejects and executeRoute throws
ExecuteRouteConfirm ==
    /\ flPc = "routeConfirm"
    /\ \/ /\ flPc' = "done"
          /\ flResult' = [flResult EXCEPT !.kind = "signature",
                                          !.confirmed = TRUE]
       \/ /\ flPc' = "thrown"
          /\ flResult' = [flResult EXCEPT !.kind = "thrown",
                                          !.error = "confirmation failed"]
    /\ UNCHANGED <<flCall, flHop, flHopIxs, flRouteLegs, flBuilderCalls>>
    /\ UNCHANGED exceptFl

\* a simulated leg as simulateLeg returns it
SimLeg(dx, dy, type, binArrays) ==
    [dxAtomic |-> dx, dyAtomic |-> dy, type |-> type, binArrays |-> binArrays]

SimLegChoices ==
    { SimLeg(dx, dy, t, TRUE) :
        dx \in {NoInt, Some(4), Some(6)}, dy \in {NoInt, Some(6)},
        t \in {"dlmm", "cpmm"} }

\* resolveDexType
resolveDexType(leg) ==
    IF leg.type = "dlmm" THEN "METEORA_DLMM"
    ELSE IF leg.type = "whirlpool" THEN "ORCA_WHIRLPOOL"
    ELSE IF leg.type = "clmm" THEN "RAYDIUM_CLMM"
    ELSE IF leg.type = "cpmm" THEN "RAYDIUM_CPMM"
    ELSE "UNKNOWN"

\* legs.map(...) that gives every hop the first leg's input, the loan amount
PreparedRouteLegsLoanReused(legs) ==
    [i \in 1..Len(legs) |->
        RouteLeg(legs[1].dxAtomic, legs[i].dyAtomic, resolveDexType(legs[i]),
                 legs[i].binArrays)]

\* executeFlashloan, lines 502-510: legs.map(...)
PreparedRouteLegs(legs) ==
    [i \in 1..Len(legs) |->
        RouteLeg(legs[i].dxAtomic, legs[i].dyAtomic, resolveDexType(legs[i]),
                 legs[i].binArrays)]

\* executeFlashloan. With a missing connection or payer or other than 3
\* legs it calls executeRoute, passing the payer as `payerKeypair`, so
\* executeRoute sees no `payer`. Otherwise it prepares the route legs and
\* builds the argument of buildFlashloanTx, where reading the undeclared
\* SOME_PROGRAM_ID throws before buildFlashloanTx is entered.
ExecuteFlashloan ==
    /\ flPc = "idle"
    /\ \E c \in BOOLEAN, py \in BOOLEAN,
          legs \in SeqsUpTo(SimLegChoices, MaxLegs) :
         /\ flCall' = [fn |-> "executeFlashloan", connection |-> c,
                       payer |-> py, legs |-> legs, builder |-> "throws",
                       sdkFailsAt |-> 0, loanAmount |-> 4,
                       opts |-> FLASHLOAN_OPTS]
         /\ IF ~c \/ ~py \/ Len(legs) # 3
            THEN /\ FlThrow(executeRouteEntryError(c, FALSE, legs))
                 /\ UNCHANGED flRouteLegs
            ELSE /\ flRouteLegs' = PreparedRouteLegs(legs)
                 /\ FlThrow("ReferenceError")
    /\ UNCHANGED <<flHop, flHopIxs, flBuilderCalls>>
    /\ UNCHANGED exceptFl

\* ------------------------------------------------------------------------
\* Reserve enricher (poolLoader.js: rateLimiter, fetchAccountsBatched,
\* enrichReserves)
\* ------------------------------------------------------------------------

\* a reserve field of a pool: absent, a number, or a string of digits
NoReserve == [kind |-> "absent", val |-> 0]
Num(n) == [kind |-> "number", val |-> n]
Str(n) == [kind |-> "string", val |-> n]

\* JavaScript truthiness of a reserve field: undefined and the number 0 are
\* falsy, every non-empty string (also "0") is truthy
Truthy(v) == v.kind = "string" \/ (v.kind = "number" /\ v.val # 0)

\* parseFloat(v || 0)
parseFloatOrZero(v) == IF Truthy(v) THEN v.val ELSE 0

\* a flag of a pool that may not have been written yet
NoFlag == [has |-> FALSE, v |-> FALSE]
Flag(b) == [has |-> TRUE, v |-> b]

\* vault addresses: 0 is an absent (null) one, -1 a string that is no public
\* key, the members of Vaults are token accounts
Vaults == {1, 2, 3}

\* a pool as enrichReserves reads and writes it; reserveSource "" is unset.
\* xVault and yVault are what getVaultAddresses finds under any of the field
\* names it tries.
LoaderPool(type, xVault, yVault, xReserve, yReserve) ==
    [type |-> type, xVault |-> xVault, yVault |-> yVault,
     xReserve |-> xReserve, yReserve |-> yReserve,
     reserveSource |-> "", hasReserves |-> NoFlag, isMathReady |-> NoFlag]

LoaderPoolChoices ==
    { LoaderPool("cpmm", 1, 2, NoReserve, NoReserve),
      LoaderPool("cpmm", 2, 3, Num(0), Str(5)),
      LoaderPool("dlmm", 1, 2, Str(5), Str(5)),
      LoaderPool("cpmm", 0, 0, NoReserve, NoReserve),
      LoaderPool("clmm", 0, 0, NoReserve, NoReserve),
      LoaderPool("whirlpool", 3, 1, NoReserve, NoReserve),
      LoaderPool("dlmm", 1, 0, NoReserve, NoReserve),
      LoaderPool("cpmm", -1, 1, NoReserve, NoReserve),
      LoaderPool("clmm", 0, 0, Num(5), Num(5)) }

BatchSizeChoices == {1, DefaultBatchSize}

\* an entry of the accounts array: null, or an account whose data Buffer has
\* len bytes and holds amount at offset 64
NoAccount == [present |-> FALSE, len |-> 0, amount |-> 0]
Account(len, amount) == [present |-> TRUE, len |-> len, amount |-> amount]

AccountChoices ==
    { NoAccount,
      Account(TokenAccountMinLength - 1, 7),
      Account(TokenAccountMinLength, 0),
      Account(TokenAccountMinLength, 7) }

\* parseSplTokenAmount: null (NoReserve) for a payload shorter than 72
\* bytes, else the amount as a string
parseSplTokenAmount(data) ==
    IF ~data.present \/ data.len < TokenAccountMinLength
    THEN NoReserve
    ELSE Str(data.amount)

\* hasValidReserves
hasValidReserves(pool) ==
    parseFloatOrZero(pool.xReserve) > 0 /\ parseFloatOrZero(pool.yReserve) > 0

Min(a, b) == IF a <= b THEN a ELSE b

\* the rateLimiter object; backoff is the delay backoffUntil was last set
\* from (backoffUntil = Date.now() + backoff)
NewRateLimiter == [consecutive429s |-> 0, backoff |-> 0]

handle429Uncapped(rl) ==
    [consecutive429s |-> rl.consecutive429s + 1,
     backoff |-> BackoffBaseMs * 2 ^ (rl.consecutive429s + 1)]

handle429(rl) ==
    LET n == rl.consecutive429s + 1
    IN [consecutive429s |-> n,
        backoff |-> Min(BackoffCapMs,
                        BackoffBaseMs * 2 ^ Min(BackoffMaxExponent, n))]

handleSuccessKeeps(rl) == rl

handleSuccess(rl) == [rl EXCEPT !.consecutive429s = 0]

\* the queueing loop of enrichReserves, lines 388-444, on pool k
AddVault(st, k, vault, side) ==
    IF vault \notin Vaults
    THEN st     \* new PublicKey throws, caught at lines 425 and 441
    ELSE [st EXCEPT
            !.pubkeyList = IF \E j \in 1..Len(@) : @[j] = vault
                           THEN @ ELSE Append(@, vault),
            !.vaultMap[vault] = Append(@, [pool |-> k, side |-> side])]

NeedsSdk(type) == type \in {"clmm", "whirlpool", "dlmm"}

QueuePool(st, k, forceRefresh) ==
    LET pool == st.pools[k]
    IN IF hasValidReserves(pool) /\ ~forceRefresh
       THEN [st EXCEPT !.pools[k] =
                [pool EXCEPT !.reserveSource = "cache",
                             !.hasReserves = Flag(TRUE),
                             !.isMathReady = Flag(TRUE)]]
       ELSE IF pool.xVault = 0 \/ pool.yVault = 0
       THEN IF NeedsSdk(pool.type)
            THEN [st EXCEPT !.sdkPools = Append(@, k)]
            ELSE [st EXCEPT !.pools[k] =
                     [pool EXCEPT !.reserveSource = "none",
                                  !.hasReserves = Flag(FALSE),
                                  !.isMathReady = Flag(FALSE)]]
       ELSE AddVault(AddVault(st, k, pool.xVault, "x"), k, pool.yVault, "y")

RECURSIVE QueuePools(_, _, _)
QueuePools(st, k, forceRefresh) ==
    IF k > Len(st.pools)
    THEN st
    ELSE QueuePools(QueuePool(st, k, forceRefresh), k + 1, forceRefresh)

\* the result loop of enrichReserves, lines 458-483, on pubkeyList[i]
RECURSIVE UpdateTargets(_, _, _, _)
UpdateTargets(pools, targets, j, amount) ==
    IF j > Len(targets)
    THEN pools
    ELSE LET t == targets[j]
             updated == IF t.side = "x"
                        THEN [pools EXCEPT ![t.pool].xReserve = amount,
                                           ![t.pool].reserveSource = "fresh"]
                        ELSE [pools EXCEPT ![t.pool].yReserve = amount,
                                           ![t.pool].reserveSource = "fresh"]
         IN UpdateTargets(updated, targets, j + 1, amount)

RECURSIVE ProcessResults(_, _, _, _, _)
ProcessResults(pools, pubkeyList, vaultMap, results, i) ==
    IF i > Len(pubkeyList)
    THEN pools
    ELSE LET amount == parseSplTokenAmount(results[i])
             next == IF amount = NoReserve
                     THEN pools
                     ELSE UpdateTargets(pools, vaultMap[pubkeyList[i]], 1,
                                        amount)
         IN ProcessResults(next, pubkeyList, vaultMap, results, i + 1)

\* the final pass of enrichReserves, lines 512-534.  The test of line 527,
\* type === 'cpmm' || type === 'dlmm' || 'whirlpool', ends in a non-empty
\* string and so holds for every type: the else branch is never taken.
FinalPass(pool) ==
    LET source == IF pool.reserveSource = ""
                  THEN IF Truthy(pool.xReserve) /\ Truthy(pool.yReserve)
                       THEN "partial" ELSE "none"
                  ELSE pool.reserveSource
        has == hasValidReserves(pool)
        lowered == pool.type
        ready == IF lowered = "cpmm" \/ lowered = "dlmm" \/ TRUE
                 THEN has
                 ELSE TRUE
    IN [pool EXCEPT !.reserveSource = source,
                    !.hasReserves = Flag(has),
                    !.isMathReady = Flag(ready)]

LoaderInit ==
    /\ ldPools \in SeqsUpTo(LoaderPoolChoices, MaxPools)
    /\ ldOptions \in [forceRefresh : BOOLEAN, batchSize : BatchSizeChoices]
    /\ ldPc = "idle"
    /\ ldPubkeyList = <<>>
    /\ ldVaultMap = [v \in Vaults |-> <<>>]
    /\ ldSdkPools = <<>>
    /\ ldI = 1
    /\ ldRetries = 0
    /\ ldResults = <<>>
    /\ ldAttempted = {}
    /\ ldRateLimiter = NewRateLimiter
    /\ ldResponse = "none"

\* where enrichReserves goes after the vault reads: line 486
AfterReads(sdkPools) == IF Len(sdkPools) > 0 THEN "hydrate" ELSE "final"

\* enrichReserves, lines 375-455: the queueing loop, then the call of
\* fetchAccountsBatched when there is a vault to read (lines 311-313:
\* results filled with null)
EnrichQueue ==
    /\ ldPc = "idle"
    /\ LET st == QueuePools([pools |-> ldPools, pubkeyList |-> <<>>,
                             vaultMap |-> [v \in Vaults |-> <<>>],
                             sdkPools |-> <<>>], 1, ldOptions.forceRefresh)
       IN /\ ldPools' = st.pools
          /\ ldPubkeyList' = st.pubkeyList
          /\ ldVaultMap' = st.vaultMap
          /\ ldSdkPools' = st.sdkPools
          /\ ldResults' = [i \in 1..Len(st.pubkeyList) |-> NoAccount]
          /\ ldPc' = IF Len(st.pubkeyList) > 0
                     THEN "fetch" ELSE AfterReads(st.sdkPools)
    /\ UNCHANGED <<ldOptions, ldI, ldRetries, ldAttempted, ldRateLimiter,
                   ldResponse>>
    /\ UNCHANGED exceptLd

\* the indices of the batch that starts at i (pubkeys.slice(i, i + batchSize))
BatchIndices(i, n, batchSize) == i..Min(i + batchSize - 1, n)

\* the for loop of fetchAccountsBatched goes on with the next batch after a
\* batch that could not be read: break (line 355) and the exhausted retries
\* (line 337) both leave only the while loop
AfterFailedBatchAbort(i, n, batchSize) == n + 1

AfterFailedBatch(i, n, batchSize) == i + batchSize

\* leaves the batch at ldI for the batch at next
NextBatch(next) ==
    /\ ldI' = next
    /\ ldRetries' = 0
    /\ ldPc' = IF next > Len(ldPubkeyList) THEN "process" ELSE "fetch"

\* the condition of the retry loop, line 334, once a read has failed
RetryAlways(retries) == TRUE

RetryAllowed(retries) == retries < maxRetries

\* fetchAccountsBatched, lines 334-344: the read of the batch at ldI
\* succeeds; the accounts it returns are stored and handleSuccess runs
FetchSuccess ==
    /\ ldPc = "fetch"
    /\ LET n == Len(ldPubkeyList)
           batch == BatchIndices(ldI, n, ldOptions.batchSize)
       IN \E accounts \in [batch -> AccountChoices] :
            /\ ldResults' = [j \in 1..n |->
                               IF j \in batch THEN accounts[j]
                               ELSE ldResults[j]]
            /\ ldAttempted' = ldAttempted \cup {ldI}
            /\ ldRateLimiter' = handleSuccess(ldRateLimiter)
            /\ ldResponse' = "ok"
            /\ NextBatch(ldI + ldOptions.batchSize)
    /\ UNCHANGED <<ldPools, ldOptions, ldPubkeyList, ldVaultMap, ldSdkPools>>
    /\ UNCHANGED exceptLd

\* fetchAccountsBatched, lines 345-351: the read is answered with a 429;
\* handle429 runs and the batch is retried while retries < maxRetries
Fetch429 ==
    /\ ldPc = "fetch"
    /\ ldAttempted' = ldAttempted \cup {ldI}
    /\ ldRateLimiter' = handle429(ldRateLimiter)
    /\ ldResponse' = "429"
    /\ IF RetryAllowed(ldRetries + 1)
       THEN /\ ldRetries' = ldRetries + 1
            /\ UNCHANGED <<ldI, ldPc>>
       ELSE NextBatch(AfterFailedBatch(ldI, Len(ldPubkeyList),
                                       ldOptions.batchSize))
    /\ UNCHANGED <<ldPools, ldOptions, ldPubkeyList, ldVaultMap, ldSdkPools,
                   ldResults>>
    /\ UNCHANGED exceptLd

\* fetchAccountsBatched, lines 352-356: the read fails with another error;
\* the batch is given up
FetchError ==
    /\ ldPc = "fetch"
    /\ ldAttempted' = ldAttempted \cup {ldI}
    /\ ldResponse' = "error"
    /\ NextBatch(AfterFailedBatch(ldI, Len(ldPubkeyList),
                                  ldOptions.batchSize))
    /\ UNCHANGED <<ldPools, ldOptions, ldPubkeyList, ldVaultMap, ldSdkPools,
                   ldResults, ldRateLimiter>>
    /\ UNCHANGED exceptLd

\* enrichReserves, lines 458-483: the accounts read are written to the pools
EnrichProcess ==
    /\ ldPc = "process"
    /\ ldPools' = ProcessResults(ldPools, ldPubkeyList, ldVaultMap,
                                 ldResults, 1)
    /\ ldPc' = AfterReads(ldSdkPools)
    /\ UNCHANGED <<ldOptions, ldPubkeyList, ldVaultMap, ldSdkPools, ldI,
                   ldRetries, ldResults, ldAttempted, ldRateLimiter,
                   ldResponse>>
    /\ UNCHANGED exceptLd

\* hydratePoolsOnDemand (./utils/example_reserveFetcher_usage, not part of
\* the sources): SDK-based hydration of the pools without vaults.  It either
\* fails or returns, for some of the pools, a record with both reserves.
HydratedPool(k) == [poolAddress |-> k, xReserve |-> Str(7), yReserve |-> Str(7)]

hydratePoolsOnDemand(sdkPools) ==
    { [throws |-> TRUE, hydrated |-> {}] } \cup
    { [throws |-> FALSE, hydrated |-> { HydratedPool(k) : k \in ks }] :
        ks \in SUBSET { sdkPools[j] : j \in 1..Len(sdkPools) } }

\* Object.assign(original, hPool) for every hydrated pool, lines 494-497
MergeHydrated(pools, hydrated) ==
    [k \in 1..Len(pools) |->
        IF \E h \in hydrated : h.poolAddress = k
        THEN LET h == CHOOSE h \in hydrated : h.poolAddress = k
             IN [pools[k] EXCEPT !.xReserve = h.xReserve,
                                 !.yReserve = h.yReserve]
        ELSE pools[k]]

\* enrichReserves, lines 486-509: SDK hydration inside try/catch
EnrichHydrate ==
    /\ ldPc = "hydrate"
    /\ \E outcome \in hydratePoolsOnDemand(ldSdkPools) :
         ldPools' = IF outcome.throws
                    THEN ldPools
                    ELSE MergeHydrated(ldPools, outcome.hydrated)
    /\ ldPc' = "final"
    /\ UNCHANGED <<ldOptions, ldPubkeyList, ldVaultMap, ldSdkPools, ldI,
                   ldRetries, ldResults, ldAttempted, ldRateLimiter,
                   ldResponse>>
    /\ UNCHANGED exceptLd

\* enrichReserves, lines 512-545: the final pass and the return
EnrichFinal ==
    /\ ldPc = "final"
    /\ ldPools' = [k \in 1..Len(ldPools) |-> FinalPass(ldPools[k])]
    /\ ldPc' = "done"
    /\ UNCHANGED <<ldOptions, ldPubkeyList, ldVaultMap, ldSdkPools, ldI,
                   ldRetries, ldResults, ldAttempted, ldRateLimiter,
                   ldResponse>>
    /\ UNCHANGED exceptLd


ldIdle ==
    /\ ldPools = <<>>
    /\ ldOptions = [forceRefresh |-> FALSE, batchSize |-> DefaultBatchSize]
    /\ ldPc = "off"
    /\ ldPubkeyList = <<>>
    /\ ldVaultMap = [v \in Vaults |-> <<>>]
    /\ ldSdkPools = <<>>
    /\ ldI = 1
    /\ ldRetries = 0
    /\ ldResults = <<>>
    /\ ldAttempted = {}
    /\ ldRateLimiter = NewRateLimiter
    /\ ldResponse = "none"

\* ------------------------------------------------------------------------
\* Pool validator (poolLoader.js validatePools)
\* ------------------------------------------------------------------------

\* a pool as main hands it from enrichReserves to validatePools (lines
\* 688-696): poolAddress "" and mint 0 are absent ones, the decimals are
\* NoInt when undefined, hasReserves is what the final pass of
\* enrichReserves wrote
ValidatorPool(address, base, quote, baseDec, quoteDec, type, x, y) ==
    [poolAddress |-> address, baseMint |-> base, quoteMint |-> quote,
     baseDecimals |-> baseDec, quoteDecimals |-> quoteDec,
     type |-> type, xReserve |-> x, yReserve |-> y,
     hasReserves |-> FinalPass(LoaderPool(type, 0, 0, x, y)).hasReserves.v]

ValidatorPoolChoices ==
    { ValidatorPool("A", 1, 2, Some(9), Some(6), "cpmm", Str(5), Str(5)),
      ValidatorPool("B", 1, 2, Some(0), Some(6), "dlmm", Num(5), Num(5)),
      ValidatorPool("", 1, 2, Some(9), Some(6), "cpmm", Str(5), Str(5)),
      ValidatorPool("", 0, 2, NoInt, Some(6), "cpmm", NoReserve, NoReserve),
      ValidatorPool("C", 0, 2, Some(9), Some(6), "cpmm", Str(5), Str(5)),
      ValidatorPool("C", 1, 0, NoInt, Some(6), "dlmm", NoReserve, NoReserve),
      ValidatorPool("D", 1, 2, NoInt, Some(6), "clmm", NoReserve, NoReserve),
      ValidatorPool("D", 1, 2, Some(9), NoInt, "cpmm", NoReserve, NoReserve),
      ValidatorPool("E", 1, 2, Some(9), Some(6), "cpmm", Num(0), Str(5)),
      ValidatorPool("E", 1, 2, Some(9), Some(6), "dlmm", NoReserve, NoReserve),
      ValidatorPool("F", 1, 2, Some(9), Some(6), "clmm", NoReserve, NoReserve),
      ValidatorPool("G", 1, 2, Some(9), Some(6), "whirlpool", NoReserve,
                    NoReserve),
      ValidatorPool("H", 1, 2, Some(9), Some(6), "whirlpool", Str(5), Str(5)) }

NoIssues == [noAddress |-> 0, noMints |-> 0, noDecimals |-> 0,
             noReserves |-> 0]

ValidateInit ==
    /\ vpPools \in SeqsUpTo(ValidatorPoolChoices, MaxPools)
    /\ vpPc = "idle"
    /\ vpValid = <<>>
    /\ vpIssues = NoIssues

\* the counter the loop body of validatePools (lines 567-593) increments for
\* a pool, "" when the pool is pushed to valid
IssueOfAnyType(pool) ==
    IF pool.poolAddress = "" THEN "noAddress"
    ELSE IF pool.baseMint = 0 \/ pool.quoteMint = 0 THEN "noMints"
    ELSE IF ~pool.baseDecimals.has \/ ~pool.quoteDecimals.has
         THEN "noDecimals"
    ELSE IF ~pool.hasReserves THEN "noReserves"
    ELSE ""

IssueOf(pool) ==
    IF pool.poolAddress = "" THEN "noAddress"
    ELSE IF pool.baseMint = 0 \/ pool.quoteMint = 0 THEN "noMints"
    ELSE IF ~pool.baseDecimals.has \/ ~pool.quoteDecimals.has
         THEN "noDecimals"
    ELSE IF (pool.type = "cpmm" \/ pool.type = "dlmm") /\ ~pool.hasReserves
         THEN "noReserves"
    ELSE ""

\* the loop of validatePools from pool k on
RECURSIVE validateLoop(_, _, _)
validateLoop(pools, k, acc) ==
    IF k > Len(pools)
    THEN acc
    ELSE LET issue == IssueOf(pools[k])
         IN validateLoop(pools, k + 1,
               IF issue = ""
               THEN [acc EXCEPT !.valid = Append(@, pools[k])]
               ELSE [acc EXCEPT !.issues[issue] = @ + 1])

validatePools(pools) ==
    validateLoop(pools, 1, [valid |-> <<>>, issues |-> NoIssues])

\* validatePools, lines 555-604
ValidatePools ==
    /\ vpPc = "idle"
    /\ LET r == validatePools(vpPools)
       IN /\ vpValid' = r.valid
          /\ vpIssues' = r.issues
    /\ vpPc' = "done"
    /\ UNCHANGED vpPools
    /\ UNCHANGED exceptVp

vpIdle ==
    /\ vpPools = <<>>
    /\ vpPc = "off"
    /\ vpValid = <<>>
    /\ vpIssues = NoIssues

\* ------------------------------------------------------------------------
\* Pool classifier (_utils.js normalizeDex, normalizeType)
\* ------------------------------------------------------------------------

\* strings are sequences of characters; a field is absent (undefined or
\* null) or holds a string
NoText == [has |-> FALSE, v |-> <<>>]
Text(s) == [has |-> TRUE, v |-> s]

\* the words the classifier compares with, and the words of the inputs
Orca == <<"o", "r", "c", "a">>
OrcaCapital == <<"O", "r", "c", "a">>
Meteora == <<"m", "e", "t", "e", "o", "r", "a">>
Raydium == <<"r", "a", "y", "d", "i", "u", "m">>
Phoenix == <<"p", "h", "o", "e", "n", "i", "x">>
Clmm == <<"c", "l", "m", "m">>
Dlmm == <<"d", "l", "m", "m">>
Cpmm == <<"c", "p", "m", "m">>
Whirlpool == <<"w", "h", "i", "r", "l", "p", "o", "o", "l">>
ClmmCapital == <<"C", "L", "M", "M">>
Stable == <<"s", "t", "a", "b", "l", "e">>
Unknown == <<"u", "n", "k", "n", "o", "w", "n">>
Amm == <<"a", "m", "m">>
Constant == <<"c", "o", "n", "s", "t", "a", "n", "t">>

\* String.prototype.toLowerCase on the letters that occur
LowerChar(c) ==
    CASE c = "C" -> "c" [] c = "L" -> "l" [] c = "M" -> "m"
      [] c = "O" -> "o" [] c = "R" -> "r" [] c = "A" -> "a"
      [] OTHER -> c

toLowerCase(s) == [i \in 1..Len(s) |-> LowerChar(s[i])]

\* String.prototype.includes
includes(s, sub) ==
    \E i \in 0..(Len(s) - Len(sub)) : SubSeq(s, i + 1, i + Len(sub)) = sub

\* a ?? b
Coalesce(a, b) == IF a.has THEN a ELSE b

\* p.raw: absent, or an object with dex, type and bin_step
NoRaw == [has |-> FALSE, dex |-> NoText, type |-> NoText, bin_step |-> 0]
Raw(dex, type, binStep) ==
    [has |-> TRUE, dex |-> dex, type |-> type, bin_step |-> binStep]

\* the pool record normalizeType reads; isNull is a null or undefined p,
\* binStep and tickSpacing 0 are absent ones
NullPool ==
    [isNull |-> TRUE, dex |-> NoText, type |-> NoText, poolType |-> NoText,
     binStep |-> 0, tickSpacing |-> 0, raw |-> NoRaw]

DexChoices ==
    { NoText, Text(<<>>), Text(Orca), Text(OrcaCapital),
      Text(Meteora), Text(Raydium), Text(Phoenix) }

TypeChoices ==
    { NoText, Text(<<>>), Text(Clmm), Text(Dlmm),
      Text(Cpmm), Text(Whirlpool), Text(ClmmCapital),
      Text(Stable) }

RawChoices ==
    { NoRaw, Raw(Text(Meteora), NoText, 0),
      Raw(NoText, Text(Dlmm), 20) }

TypedPoolChoices ==
    { NullPool } \cup
    { [isNull |-> FALSE, dex |-> d, type |-> t, poolType |-> pt,
       binStep |-> b, tickSpacing |-> ts, raw |-> r] :
         d \in DexChoices, t \in TypeChoices,
         pt \in {NoText, Text(Clmm)},
         b \in {0, 80}, ts \in {0, 64}, r \in RawChoices }

\* normalizeDex, lines 35-42; raw._original is not modelled (always absent)
normalizeDex(p) ==
    LET d == toLowerCase(Coalesce(p.dex, Coalesce(p.raw.dex, Text(<<>>))).v)
    IN IF d = <<>> THEN Unknown
       ELSE IF includes(d, Meteora) THEN Meteora
       ELSE IF includes(d, Orca) THEN Orca
       ELSE IF includes(d, Raydium) THEN Raydium
       ELSE d

\* normalizeType, lines 44-57; raw.poolType, raw.tickSpacing and
\* raw._original are not modelled (always absent)
normalizeType(p) ==
    LET d == normalizeDex(p)
        t == toLowerCase(Coalesce(p.type, Coalesce(p.poolType,
                           Coalesce(p.raw.type, Text(<<>>)))).v)
    IN IF d = Orca THEN "whirlpool"
       ELSE IF includes(t, Dlmm) THEN "dlmm"
       ELSE IF includes(t, Whirlpool) \/ includes(t, Orca) THEN "whirlpool"
       ELSE IF includes(t, Clmm) THEN "clmm"
       ELSE IF includes(t, Cpmm) \/ includes(t, Amm) \/ includes(t, Constant)
            THEN "cpmm"
       ELSE IF p.binStep # 0 \/ p.raw.bin_step # 0 THEN "dlmm"
       ELSE IF p.tickSpacing # 0 THEN "whirlpool"
       ELSE "cpmm"

TypeInit ==
    /\ ntPool \in TypedPoolChoices
    /\ ntPc = "idle"
    /\ ntResult = ""

\* a call of normalizeType
NormalizeTypeCall ==
    /\ ntPc = "idle"
    /\ ntResult' = normalizeType(ntPool)
    /\ ntPc' = "done"
    /\ UNCHANGED ntPool
    /\ UNCHANGED exceptNt

ntIdle ==
    /\ ntPool = NullPool
    /\ ntPc = "off"
    /\ ntResult = ""

\* ------------------------------------------------------------------------
\* Rate limiter in time (poolLoader.js rateLimiter, waitForRateLimit)
\* ------------------------------------------------------------------------

\* rateLimiter.minDelay, line 190
minDelay == 50

\* concurrent calls of fetchAccountsBatched, batches per call
NumRuns == 2
MaxBatches == 1
Runs == 1..NumRuns

\* the clock starts at StartClock and is followed up to MaxClock
StartClock == 100
MaxClock == 700
TickChoices == {50, 500}

\* the rateLimiter object of lines 188-193
NewTimedLimiter == [lastCall |-> 0, backoffUntil |-> 0, consecutive429s |-> 0]

NewRun(batches) ==
    [pc |-> IF batches = 0 THEN "done" ELSE "loop",
     now |-> 0, wake |-> 0, retries |-> 0, batches |-> batches]

LimiterInit ==
    /\ rlClock = StartClock
    /\ rlLimiter = NewTimedLimiter
    /\ rlRun \in [Runs -> {NewRun(b) : b \in 0..MaxBatches}]

\* waitForRateLimit, line 212, and the read that follows its return
\* (line 337): lastCall = Date.now(), getMultipleAccountsInfo is called
StartRead(r) ==
    /\ rlLimiter' = [rlLimiter EXCEPT !.lastCall = rlClock]
    /\ rlRun' = [rlRun EXCEPT ![r].pc = "reading",
                              ![r].now = 0, ![r].wake = 0]

\* waitForRateLimit, lines 207-210, with the `now` of line 199
AfterBackoff(r, now) ==
    LET elapsed == now - rlLimiter.lastCall
    IN IF elapsed < minDelay
       THEN /\ rlRun' = [rlRun EXCEPT
                            ![r].pc = "delaySleep",
                            ![r].now = now,
                            ![r].wake = rlClock + (minDelay - elapsed)]
            /\ UNCHANGED rlLimiter
       ELSE StartRead(r)

\* waitForRateLimit, lines 198-205: entered from the retry loop, line 336
WaitForRateLimit(r) ==
    /\ rlRun[r].pc = "loop"
    /\ IF rlLimiter.backoffUntil > rlClock
       THEN /\ rlRun' = [rlRun EXCEPT
                            ![r].pc = "backoffSleep",
                            ![r].now = rlClock,
                            ![r].wake = rlLimiter.backoffUntil]
            /\ UNCHANGED rlLimiter
       ELSE AfterBackoff(r, rlClock)
    /\ UNCHANGED rlClock
    /\ UNCHANGED exceptRl

\* the timer of line 204 fires; lines 207-212 run with the earlier `now`
WakeFromBackoff(r) ==
    /\ rlRun[r].pc = "backoffSleep"
    /\ rlClock >= rlRun[r].wake
    /\ AfterBackoff(r, rlRun[r].now)
    /\ UNCHANGED rlClock
    /\ UNCHANGED exceptRl

\* the timer of line 209 fires; line 212 and the read follow
WakeFromDelay(r) ==
    /\ rlRun[r].pc = "delaySleep"
    /\ rlClock >= rlRun[r].wake
    /\ StartRead(r)
    /\ UNCHANGED rlClock
    /\ UNCHANGED exceptRl

\* the loop of lines 318-357 moves to its next batch
RunNextBatch(run) ==
    [run EXCEPT !.batches = @ - 1, !.retries = 0,
                !.pc = IF run.batches = 1 THEN "done" ELSE "loop"]

\* lines 337-344: the read answers
TimedReadOk(r) ==
    /\ rlRun[r].pc = "reading"
    /\ rlLimiter' = [rlLimiter EXCEPT !.consecutive429s = 0]
    /\ rlRun' = [rlRun EXCEPT ![r] = RunNextBatch(@)]
    /\ UNCHANGED rlClock
    /\ UNCHANGED exceptRl

\* lines 346-351 and handle429, lines 215-220
TimedRead429(r) ==
    /\ rlRun[r].pc = "reading"
    /\ LET h == handle429(rlLimiter)
       IN rlLimiter' = [rlLimiter EXCEPT
                           !.consecutive429s = h.consecutive429s,
                           !.backoffUntil = rlClock + h.backoff]
    /\ rlRun' = [rlRun EXCEPT ![r] =
                    IF RetryAllowed(@.retries + 1)
                    THEN [@ EXCEPT !.retries = @ + 1, !.pc = "loop"]
                    ELSE RunNextBatch(@)]
    /\ UNCHANGED rlClock
    /\ UNCHANGED exceptRl

\* lines 352-355: another error, the batch is given up
TimedReadError(r) ==
    /\ rlRun[r].pc = "reading"
    /\ rlRun' = [rlRun EXCEPT ![r] = RunNextBatch(@)]
    /\ UNCHANGED <<rlClock, rlLimiter>>
    /\ UNCHANGED exceptRl

\* time passes
Tick ==
    /\ \E d \in TickChoices :
          /\ rlClock + d <= MaxClock
          /\ rlClock' = rlClock + d
    /\ UNCHANGED <<rlLimiter, rlRun>>
    /\ UNCHANGED exceptRl

rlIdle ==
    /\ rlClock = 0
    /\ rlLimiter = NewTimedLimiter
    /\ rlRun = [r \in Runs |-> NewRun(0)]

\* ------------------------------------------------------------------------
\* Leg simulator (triArbitrage.js sdk.quote, simulateLeg, resetStats)
\* ------------------------------------------------------------------------

\* simulateLeg calls that reach the counters, between two resets
MaxLegCalls == 2

\* the values normalizeType returns
LegTypes == {"dlmm", "clmm", "cpmm", "whirlpool"}

\* a pool record as simulateLeg reads it; mint 1 is its base mint and mint 2
\* its quote mint, mint 3 belongs to neither side
LegPool(type, baseDec, quoteDec, x, y) ==
    [type |-> type, baseMint |-> 1, quoteMint |-> 2,
     baseDecimals |-> baseDec, quoteDecimals |-> quoteDec,
     xReserve |-> x, yReserve |-> y, feeBps |-> NoInt]

LegDecimalsChoices == {<<Some(9), Some(6)>>, <<NoInt, Some(6)>>}

LegReserve == Some(NatDigits(MaxReserve))

\* pools of every type with reserves, and a cpmm pool without
LegPoolChoices ==
    {LegPool(t, d[1], d[2], LegReserve, LegReserve) :
        t \in LegTypes, d \in LegDecimalsChoices}
    \cup {LegPool("cpmm", Some(9), Some(6), NoValue, NoValue)}

\* the mints a leg may be asked to sell
LegMints == {1, 2, 3}

\* dxAtomic, counted in halves of an atomic unit: -1/2, 0, 1/2, 1, 3/2
HalfAmountChoices == {0 - 1, 0, 1, 2, 3}

\* the amounts an adapter may quote
OutAmountChoices == {0, 1, 2}

\* D(dxAtomic).floor(), line 232
FloorOfHalves(h) == h \div 2

LegCall(pool, inputMint, dxHalves, preferSdk) ==
    [pool |-> pool, inputMint |-> inputMint, dxHalves |-> dxHalves,
     preferSdk |-> preferSdk]

NoLegCall == LegCall(LegPool("cpmm", NoInt, NoInt, NoValue, NoValue), 1, 0, TRUE)

\* sdk.quote, lines 34-37: the adapter class for a pool
AdapterClass(type) ==
    IF type = "dlmm" THEN "DLMMAdapter"
    ELSE IF type = "clmm" THEN "CLMMAdapter"
    ELSE "CPMMAdapter"

\* an sdk.quote call: the adapter it built, whether quoteExactIn was
\* invoked and with which argument, and what sdk.quote returned
\* (found = FALSE is null)
NotCalled ==
    [called |-> FALSE, adapter |-> "", quoted |-> FALSE,
     argument |-> "", inAmountLamports |-> 0, swapForY |-> FALSE,
     found |-> FALSE, dyAtomic |-> 0]

SdkCall(pool, inputMint, amountInAtomic) ==
    [NotCalled EXCEPT !.called = TRUE,
                      !.adapter = AdapterClass(pool.type),
                      !.inAmountLamports = amountInAtomic,
                      !.swapForY = (inputMint = pool.baseMint)]

\* lines 50-55: init() throws, sdk.quote returns null
InitFailed(call) == call

\* lines 57-60: quoteExactIn({inAmountLamports, swapForY}); the adapter's
\* answer as success and outAmountRaw
\*   CPMMAdapter.quoteExactIn(inAmountAtomic, swapForY, slippageBps) takes
\*     the object for inAmountAtomic: an ensure or toDec(object) throws
\*   CLMMAdapter.quoteExactIn(inAmountAtomic, ...) likewise, inside its try:
\*     success false
\*   DLMMAdapter.quoteExactIn({inAmountLamports, swapForY}) lets the pool's
\*     swapQuote answer, or returns success false
AdapterAnswers(adapter) ==
    IF adapter = "DLMMAdapter"
    THEN {[success |-> FALSE, outAmountRaw |-> 0]}
         \cup {[success |-> TRUE, outAmountRaw |-> o] : o \in OutAmountChoices}
    ELSE {[success |-> FALSE, outAmountRaw |-> 0]}

\* lines 62-69: null unless quote.success
Quoted(call, answer) ==
    [call EXCEPT !.quoted = TRUE, !.argument = "object",
                 !.found = answer.success,
                 !.dyAtomic = IF answer.success THEN answer.outAmountRaw
                              ELSE 0]

\* sdk.quote(pool, inputMint, amountInAtomic): every way it can end
SdkQuoteResults(pool, inputMint, amountInAtomic) ==
    LET call == SdkCall(pool, inputMint, amountInAtomic)
    IN {InitFailed(call)}
       \cup {Quoted(call, a) : a \in AdapterAnswers(call.adapter)}

\* the stats object, lines 208-214
NewStats ==
    [sdkCalls |-> 0, sdkSuccess |-> 0, mathCalls |-> 0, mathSuccess |-> 0,
     failures |-> 0]

CountFailureSkipped(stats) == stats

\* stats.failures++, lines 287 and 328
CountFailure(stats) == [stats EXCEPT !.failures = @ + 1]

NoLegResult ==
    [returned |-> FALSE, ok |-> FALSE, reason |-> "", via |-> "",
     dxAtomic |-> 0, dyAtomic |-> 0, inDecimals |-> 0, outDecimals |-> 0,
     isSdkVerified |-> FALSE]

\* `${type}-sdk-failed`, line 288
SdkFailedReason(type) ==
    IF type = "clmm" THEN "clmm-sdk-failed" ELSE "whirlpool-sdk-failed"

LegFailure(reason) == [NoLegResult EXCEPT !.returned = TRUE, !.reason = reason]

\* `pool.baseDecimals || 9`, `pool.quoteDecimals || 6`, lines 255-256
DefaultInDecimals == 9
DefaultOutDecimals == 6
OrDefault(dec, default) == IF dec.has /\ dec.v # 0 THEN dec.v ELSE default

\* simulateLeg, lines 229-334, for the arguments c, the stats it finds and
\* the outcomes of its two sdk.quote calls: the stats it leaves, the second
\* sdk.quote as far as it was made, and the value returned
simulateLegFull(stats, c, probe, quote) ==
    LET dxA  == FloorOfHalves(c.dxHalves)
        type == c.pool.type
    IN IF dxA <= 0
       THEN [stats |-> stats, probe |-> NotCalled, quote |-> NotCalled,
             result |-> LegFailure("dxAtomic <= 0")]
       ELSE IF c.preferSdk /\ probe.found
       THEN LET called == [stats EXCEPT !.sdkCalls = @ + 1]
            IN IF quote.found /\ quote.dyAtomic > 0
               THEN [stats |-> [called EXCEPT !.sdkSuccess = @ + 1],
                     probe |-> probe, quote |-> quote,
                     result |->
                        [returned |-> TRUE, ok |-> TRUE, reason |-> "",
                         via |-> "sdk",
                         dxAtomic |-> dxA, dyAtomic |-> quote.dyAtomic,
                         inDecimals |-> OrDefault(c.pool.baseDecimals,
                                                  DefaultInDecimals),
                         outDecimals |-> OrDefault(c.pool.quoteDecimals,
                                                   DefaultOutDecimals),
                         isSdkVerified |-> TRUE]]
               ELSE IF type = "whirlpool" \/ type = "clmm"
               THEN [stats |-> CountFailure(called),
                     probe |-> probe, quote |-> quote,
                     result |-> LegFailure(SdkFailedReason(type))]
               ELSE [stats |-> CountFailure(called),
                     probe |-> probe, quote |-> quote,
                     result |-> LegFailure("no-simulation-method")]
       \* line 292: mathAvailable is the constant false, the branch of
       \* lines 295-326 (mathCalls, mathSuccess) is never entered
       ELSE [stats |-> CountFailure(stats),
             probe |-> probe, quote |-> NotCalled,
             result |-> LegFailure("no-simulation-method")]

LegInit ==
    /\ slStats = NewStats
    /\ slCompleted = 0
    /\ slCall = NoLegCall
    /\ slProbe = NotCalled
    /\ slQuote = NotCalled
    /\ slResult = NoLegResult

\* one call of simulateLeg, from its entry to its return; the second
\* sdk.quote is made only behind the test of line 247
SimulateLeg ==
    \E p \in LegPoolChoices, m \in LegMints, h \in HalfAmountChoices,
       b \in BOOLEAN :
       LET c   == LegCall(p, m, h, b)
           dxA == FloorOfHalves(h)
       IN /\ dxA > 0 => slCompleted < MaxLegCalls
          /\ \E probe \in IF dxA > 0 THEN SdkQuoteResults(p, m, dxA)
                           ELSE {NotCalled} :
                \E quote \in IF b /\ probe.found
                              THEN SdkQuoteResults(p, m, dxA)
                              ELSE {NotCalled} :
                   \E out \in {simulateLegFull(slStats, c, probe, quote)} :
                      /\ slStats' = out.stats
                      /\ slProbe' = out.probe
                      /\ slQuote' = out.quote
                      /\ slResult' = out.result
          /\ slCompleted' = IF dxA > 0 THEN slCompleted + 1 ELSE slCompleted
          /\ slCall' = c
          /\ UNCHANGED exceptSl

\* resetStats(), lines 553-562
ResetStats ==
    /\ slStats' = NewStats
    /\ slCompleted' = 0
    /\ UNCHANGED <<slCall, slProbe, slQuote, slResult>>
    /\ UNCHANGED exceptSl

slIdle ==
    /\ slStats = NewStats
    /\ slCompleted = 0
    /\ slCall = NoLegCall
    /\ slProbe = NotCalled
    /\ slQuote = NotCalled
    /\ slResult = NoLegResult

flIdle ==
    /\ flCall = NoFlCall
    /\ flPc = "off"
    /\ flHop = 0
    /\ flHopIxs = <<>>
    /\ flRouteLegs = <<>>
    /\ flBuilderCalls = <<>>
    /\ flResult = NoFlResult

cpIdle ==
    /\ cpPoolData = [xReserve |-> NoValue, yReserve |-> NoValue,
                     feeBps |-> NoInt, baseDecimals |-> NoInt,
                     quoteDecimals |-> NoInt]
    /\ cpAdapter = NoAdapter
    /\ cpCall = NoCall
    /\ cpQuote = NoQuote
    /\ cpBack = NoQuote

svIdle ==
    /\ svPools = [i \in 1..3 |-> Pool(1, 2)]
    /\ svCalls = "none"
    /\ svTriangle = NullTriangle
    /\ svError = ""

rtIdle ==
    /\ rtPools = [kind |-> "missing", len |-> 0, lenNow |-> 0,
                  items |-> [i \in 1..3 |-> UndefinedRoutePool]]
    /\ rtArgs = [execute |-> FALSE, tokensAreStrings |-> TRUE,
                 dxAtomic |-> [kind |-> "missing", halves |-> 0],
                 maxImpactPct |-> "omitted"]
    /\ rtPc = "idle"
    /\ rtDxA = [nan |-> FALSE, v |-> 0]
    /\ rtTriangle = NullTriangle
    /\ rtResult = NoResult
    /\ rtError = ""
    /\ rtQuoteLog = <<>>

\* the route simulator
Init == RouteInit /\ cpIdle /\ svIdle /\ flIdle /\ ldIdle /\ vpIdle /\ ntIdle /\ rlIdle /\ slIdle
Next ==
    \/ AliasPools \/ FloorDx \/ ValidateTriangle \/ CheckPools
    \/ CheckMints \/ CheckDx \/ CheckMaxImpact \/ SimulateLeg1
Spec == Init /\ [][Next]_vars

\* the triangle orientation solver on every triple of pools
InitSolve == SolveInit /\ cpIdle /\ rtIdle /\ flIdle /\ ldIdle /\ vpIdle /\ ntIdle /\ rlIdle /\ slIdle
NextSolve == SolveCall \/ ValidateCall
SpecSolve == InitSolve /\ [][NextSolve]_vars

\* the flashloan builder and executor
InitFlash == FlashInit /\ cpIdle /\ svIdle /\ rtIdle /\ ldIdle /\ vpIdle /\ ntIdle /\ rlIdle /\ slIdle
NextFlash ==
    \/ BuildFlashloanTxEnter \/ BuildFlashloanTxHop \/ BuildFlashloanTxFlash
    \/ ExecuteRouteEnter \/ ExecuteRouteHop \/ ExecuteRouteSend
    \/ ExecuteRouteConfirm
    \/ ExecuteFlashloan
SpecFlash == InitFlash /\ [][NextFlash]_vars

\* the reserve enricher
InitLoader == LoaderInit /\ cpIdle /\ svIdle /\ rtIdle /\ flIdle /\ vpIdle /\ ntIdle /\ rlIdle /\ slIdle
NextLoader ==
    \/ EnrichQueue \/ FetchSuccess \/ Fetch429 \/ FetchError
    \/ EnrichProcess \/ EnrichHydrate \/ EnrichFinal
SpecLoader == InitLoader /\ [][NextLoader]_vars

\* the pool validator
InitValidate == ValidateInit /\ cpIdle /\ svIdle /\ rtIdle /\ flIdle /\ ldIdle /\ ntIdle /\ rlIdle /\ slIdle
NextValidate == ValidatePools
SpecValidate == InitValidate /\ [][NextValidate]_vars

\* the pool classifier
InitType == TypeInit /\ cpIdle /\ svIdle /\ rtIdle /\ flIdle /\ ldIdle /\ vpIdle /\ rlIdle /\ slIdle
NextType == NormalizeTypeCall
SpecType == InitType /\ [][NextType]_vars

\* the rate limiter in time, with concurrent runs
InitLimiter == LimiterInit /\ cpIdle /\ svIdle /\ rtIdle /\ flIdle /\ ldIdle /\ vpIdle /\ ntIdle /\ slIdle
NextLimiter ==
    \/ \E r \in Runs : WaitForRateLimit(r)
    \/ \E r \in Runs : WakeFromBackoff(r)
    \/ \E r \in Runs : WakeFromDelay(r)
    \/ \E r \in Runs : TimedReadOk(r)
    \/ \E r \in Runs : TimedRead429(r)
    \/ \E r \in Runs : TimedReadError(r)
    \/ Tick
SpecLimiter == InitLimiter /\ [][NextLimiter]_vars

\* the leg simulator
InitLeg == LegInit /\ cpIdle /\ svIdle /\ rtIdle /\ flIdle /\ ldIdle /\ vpIdle /\ ntIdle /\ rlIdle
NextLeg == SimulateLeg \/ ResetStats
SpecLeg == InitLeg /\ [][NextLeg]_vars

\* the cpmm adapter
InitCpmm == CpmmInit /\ svIdle /\ rtIdle /\ flIdle /\ ldIdle /\ vpIdle /\ ntIdle /\ rlIdle /\ slIdle
NextCpmm ==
    \/ CpmmConstruct \/ CpmmQuoteExactIn \/ CpmmQuoteFastExactIn
    \/ CpmmQuoteBack
SpecCpmm == InitCpmm /\ [][NextCpmm]_vars

\* ------------------------------------------------------------------------
\* Properties of the triangle orientation solver (SpecSolve)
\* ------------------------------------------------------------------------

\* the mint `out` is opposite the mint `inp` in the pool
Opposite(pool, inp, out) ==
    \/ inp = pool.baseMint /\ out = pool.quoteMint
    \/ inp = pool.quoteMint /\ out = pool.baseMint

\* the closed three-hop walks through the pools in the given order, as
\* <<start, mint after pool1, mint after pool2>>
ClosedWalks(pools) ==
    { w \in Mints \X Mints \X Mints :
        /\ w[1] \in {pools[1].baseMint, pools[1].quoteMint}
        /\ Opposite(pools[1], w[1], w[2])
        /\ Opposite(pools[2], w[2], w[3])
        /\ Opposite(pools[3], w[3], w[1]) }

WellFormedTriangle(t, pools) ==
    /\ Len(t.inMints) = 3
    /\ t.inMints[1] = t.startMint
    /\ \A i \in 1..3 :
         t.inMints[i] \in {pools[i].baseMint, pools[i].quoteMint}
    /\ Opposite(pools[1], t.inMints[1], t.inMints[2])
    /\ Opposite(pools[2], t.inMints[2], t.inMints[3])
    /\ Opposite(pools[3], t.inMints[3], t.startMint)

\* C6: solveTriangleOrientation returns a triangle exactly when a closed
\* three-hop walk from pool1.baseMint or pool1.quoteMint exists, the triangle
\* it returns has three inMints, the first being startMint, each a mint of
\* its pool whose opposite mint is the next inMint (startMint after the
\* third), and without a closed walk it returns null.
C6_SolverFindsClosedWalk ==
    svCalls = "solve" =>
        /\ (svTriangle.kind = "triangle") <=> (ClosedWalks(svPools) # {})
        /\ svTriangle.kind = "triangle" => WellFormedTriangle(svTriangle, svPools)
        /\ ClosedWalks(svPools) = {} => svTriangle = NullTriangle

\* a returned triangle that enters pool2 by its quote side and pool3 by its
\* base side
C6_Witness ==
    /\ svCalls = "solve"
    /\ svTriangle.kind = "triangle"
    /\ svPools[2].baseMint # svPools[2].quoteMint
    /\ svPools[3].baseMint # svPools[3].quoteMint
    /\ svTriangle.inMints[2] = svPools[2].quoteMint
    /\ svTriangle.inMints[3] = svPools[3].baseMint

NonDegenerate(pools) == \A i \in 1..3 : pools[i].baseMint # pools[i].quoteMint

WalkOf(t) == <<t.startMint, t.inMints[2], t.inMints[3]>>

\* C7: for three pools with baseMint # quoteMint at most one start candidate
\* closes the cycle and the returned triangle is that unique closed walk; a
\* walk that closes from pool1.baseMint is the one returned; a repeated call
\* returns the same triangle and no call changes the pool records.
C7_UniqueDeterministicPure ==
    /\ [](svCalls = "solve" =>
            /\ NonDegenerate(svPools) =>
                 /\ Cardinality(ClosedWalks(svPools)) <= 1
                 /\ svTriangle.kind = "triangle" =>
                      ClosedWalks(svPools) = {WalkOf(svTriangle)}
            /\ (\E w \in ClosedWalks(svPools) : w[1] = svPools[1].baseMint) =>
                 /\ svTriangle.kind = "triangle"
                 /\ svTriangle.startMint = svPools[1].baseMint)
    /\ [][/\ svPools' = svPools
          /\ svCalls # "none" => svTriangle' = svTriangle]_vars

\* a triangle found from pool1.quoteMint after the walk from pool1.baseMint
\* failed, all pools having two different mints
C7_Witness ==
    /\ svCalls = "solve"
    /\ NonDegenerate(svPools)
    /\ svTriangle.kind = "triangle"
    /\ svTriangle.startMint = svPools[1].quoteMint
    /\ tryStart(svPools[1], svPools[2], svPools[3], svPools[1].baseMint)
         = NullTriangle

\* ------------------------------------------------------------------------
\* Properties of the cpmm adapter (SpecCpmm)
\* ------------------------------------------------------------------------

\* floor(dx(1-f)y / (x + dx(1-f))) in exact integer arithmetic, with
\* f = feeBps/10000: floor(dx(10000-feeBps)y / (10000x + dx(10000-feeBps)))
ExactOut(x, y, dx, feeBps) ==
    LET g == BigMul(dx, NatDigits(BpsDenominator - feeBps))
    IN  BigDiv(BigMul(g, y), BigAdd(BigMul(x, NatDigits(BpsDenominator)), g))

\* reserve of the input side and of the output side of the last quote
InputReserve ==
    IF cpCall.swapForY THEN cpAdapter.xReserveRaw.v ELSE cpAdapter.yReserveRaw.v
OutputReserve ==
    IF cpCall.swapForY THEN cpAdapter.yReserveRaw.v ELSE cpAdapter.xReserveRaw.v

\* C9: a successful quoteExactIn on positive reserves and a positive input
\* returns outAmountRaw = floor(dx(1-f)y / (x + dx(1-f))) exactly, and
\* 0 <= outAmountRaw < y.
C9_ExactCpmmOutput ==
    (cpCall.method = "quoteExactIn" /\ cpQuote.status = "success") =>
        /\ cpQuote.outAmountRaw
             = ExactOut(InputReserve, OutputReserve, cpCall.inAmountAtomic.v,
                        cpAdapter.feeBps)
        /\ BigLess(cpQuote.outAmountRaw, OutputReserve)

\* C10: no quote succeeds on an adapter built from a pool record whose
\* reserve is missing or not positive or whose fee is missing: quoteExactIn
\* and quoteFastExactIn fail and carry no quote value.
C10_NoQuoteWithoutReservesAndFee ==
    (/\ cpCall.method \in {"quoteExactIn", "quoteFastExactIn"}
     /\ \/ ~cpPoolData.xReserve.has
        \/ ~cpPoolData.yReserve.has
        \/ cpPoolData.xReserve.v = <<>>
        \/ cpPoolData.yReserve.v = <<>>
        \/ ~cpPoolData.feeBps.has) =>
        /\ cpQuote.status = "thrown"
        /\ cpQuote.outAmountRaw = <<>>
        /\ cpQuote.minOutAmountRaw = <<>>

SlippageOfCall ==
    IF cpCall.slippageBps.has THEN cpCall.slippageBps.v
    ELSE DefaultSlippageBps

\* floor(dy * (1 - slippageBps/10000)) in exact integer arithmetic
ExactMinOut(dy, slippageBps) ==
    BigDiv(BigMul(dy, NatDigits(BpsDenominator - slippageBps)),
           NatDigits(BpsDenominator))

\* C12: a successful quote has minOutAmountRaw = floor(dy * (1 -
\* slippageBps/10000)) with dy its own floored outAmountRaw, hence
\* minOutAmountRaw <= outAmountRaw.
C12_MinOutFromFlooredOutput ==
    cpQuote.status = "success" =>
        /\ cpQuote.minOutAmountRaw
             = ExactMinOut(cpQuote.outAmountRaw, SlippageOfCall)
        /\ BigLeq(cpQuote.minOutAmountRaw, cpQuote.outAmountRaw)

\* ------------------------------------------------------------------------
\* Properties of the flashloan builder and executor (SpecFlash)
\* ------------------------------------------------------------------------

HasAmounts(hop) == hop.amountInAtomic.has /\ hop.minOutAtomic.has

Buildable(call, i) ==
    /\ HasAmounts(call.legs[i])
    /\ call.legs[i].dexType = "METEORA_DLMM"
    /\ call.legs[i].binArrays
    /\ call.connection
    /\ call.sdkFailsAt # i

AllHops(call) == [i \in 1..Len(call.legs) |-> i]

\* C14: buildFlashloanTx returns a transaction only when every leg was
\* built and the flashloan instruction builder returned, the borrow
\* instruction then wraps the instructions of every leg; with a leg that
\* cannot be built (unsupported dex, no bin arrays, builder failure) or no
\* working flashloan instruction builder it ends in an error and returns
\* nothing; the flashloan instruction builder is called only after every
\* leg was built.
C14_BuildAllOrNothing ==
    flCall.fn = "buildFlashloanTx" =>
        /\ flResult.kind \in {"none", "tx", "thrown"}
        /\ flResult.kind = "tx" =>
             /\ flPc = "done"
             /\ flCall.builder = "ok"
             /\ \A i \in 1..Len(flCall.legs) : Buildable(flCall, i)
             /\ flResult.callbackIxs = AllHops(flCall)
             /\ flBuilderCalls = <<AllHops(flCall)>>
        /\ (\/ \E i \in 1..Len(flCall.legs) : ~Buildable(flCall, i)
            \/ flCall.builder # "ok") =>
             /\ flResult.kind # "tx"
             /\ flPc # "done"
        /\ flBuilderCalls # <<>> =>
             /\ flHopIxs = AllHops(flCall)
             /\ \A i \in 1..Len(flCall.legs) : Buildable(flCall, i)
        /\ flCall.builder = "absent" =>
             /\ flHopIxs = <<>>
             /\ flBuilderCalls = <<>>

\* a transaction returned for a route of three legs
C14_Witness ==
    /\ flCall.fn = "buildFlashloanTx"
    /\ flResult.kind = "tx"
    /\ Len(flCall.legs) = 3
    /\ flResult.callbackIxs = <<1, 2, 3>>

\* C23: without broadcast options the transaction is submitted with
\* skipPreflight = true and maxRetries = 0; the signature is returned after
\* the confirmation wait exactly when skipConfirm is not set.
C23_DefaultPolicyAndConfirm ==
    flCall.fn = "executeRoute" /\ flResult.sent.sent =>
       /\ flCall.opts = EmptyOpts =>
             flResult.sent.skipPreflight /\ flResult.sent.maxRetries = 0
       /\ flResult.kind = "signature" =>
             (flResult.confirmed <=> WantsConfirm(flCall.opts))

\* the confirmation part alone
C23_ConfirmPartOnly ==
    flCall.fn = "executeRoute" /\ flResult.kind = "signature" =>
       (flResult.confirmed <=> WantsConfirm(flCall.opts))

\* ------------------------------------------------------------------------
\* Properties of the route simulator (Spec)
\* ------------------------------------------------------------------------

RouteEnded == rtPc \in {"done", "thrown"}

\* the call got past every precondition check of lines 359-370
ReachedLegSimulation == rtPc = "l373" \/ rtError = "ReferenceError"

\* the floored route input
InputDx == rtArgs.dxAtomic.halves \div 2

\* every precondition of the route holds
PreconditionsHold ==
    /\ rtPools.kind # "missing"
    /\ rtPools.len = 3
    /\ rtArgs.tokensAreStrings
    /\ rtArgs.dxAtomic.kind = "num"
    /\ InputDx > 0
    /\ rtArgs.maxImpactPct \in {"omitted", "num"}
    /\ solveTriangleOrientation(rtPools.items).kind = "triangle"

\* the legs of the chained route
ChainLeg1 == simulateLeg(rtPools.items[1], InputDx)
ChainLeg2 == simulateLeg(rtPools.items[2], ChainLeg1.dyAtomic)
ChainLeg3 == simulateLeg(rtPools.items[3], ChainLeg2.dyAtomic)

\* 0 when all three legs succeed, otherwise the first leg that fails
FirstFailedLeg ==
    IF ~ChainLeg1.ok THEN 1
    ELSE IF ~ChainLeg2.ok THEN 2
    ELSE IF ~ChainLeg3.ok THEN 3
    ELSE 0

FailedLegReason ==
    IF FirstFailedLeg = 1 THEN ChainLeg1.reason
    ELSE IF FirstFailedLeg = 2 THEN ChainLeg2.reason
    ELSE ChainLeg3.reason

ChainProfit == ChainLeg3.dyAtomic - InputDx

Abs(n) == IF n < 0 THEN -n ELSE n

\* |profitPct| > 50, with profitPct = ChainProfit / InputDx * 100
GuardTrips == Abs(ChainProfit) * 100 > 50 * InputDx

\* C1: in a run that reaches leg simulation leg 1 is quoted with the floored
\* dxAtomic, leg 2 with leg 1's output, leg 3 with leg 2's output, one after
\* the other, and no leg is quoted with any other amount.
C1_LegsChained ==
    (RouteEnded /\ ReachedLegSimulation) =>
        /\ Len(rtQuoteLog) >= 1
        /\ rtQuoteLog[1] = <<1, InputDx>>
        /\ ChainLeg1.ok =>
             /\ Len(rtQuoteLog) >= 2
             /\ rtQuoteLog[2] = <<2, ChainLeg1.dyAtomic>>
        /\ (ChainLeg1.ok /\ ChainLeg2.ok) =>
             /\ Len(rtQuoteLog) = 3
             /\ rtQuoteLog[3] = <<3, ChainLeg2.dyAtomic>>

\* C2: when a leg fails the route returns ok=false with that leg's reason
\* and simulates no later leg; a result with ok=true needs three successful
\* legs.
C2_LegFailureAborts ==
    (RouteEnded /\ PreconditionsHold) =>
        /\ FirstFailedLeg # 0 =>
             /\ rtResult.kind = "returned"
             /\ ~rtResult.ok
             /\ rtResult.reason = FailedLegReason
             /\ Len(rtQuoteLog) = FirstFailedLeg
        /\ (rtResult.kind = "returned" /\ rtResult.ok) => FirstFailedLeg = 0

\* C3: a route whose profitPct exceeds 50 in absolute value returns ok=false
\* with reason 'unrealistic-profit' and its three legs; a profitPct of
\* absolute value at most 50 does not trip the guard.
C3_ProfitGuard ==
    (RouteEnded /\ PreconditionsHold /\ FirstFailedLeg = 0) =>
        /\ GuardTrips =>
             /\ rtResult.kind = "returned"
             /\ ~rtResult.ok
             /\ rtResult.reason = "unrealistic-profit"
             /\ Len(rtResult.legs) = 3
        /\ ~GuardTrips => rtResult.reason # "unrealistic-profit"

\* C4: a successful route reports outAtomic = leg 3's output, profitAtomic =
\* leg 3's output - dxAtomic and profitPct = profitAtomic / dxAtomic * 100
\* exactly.
C4_ProfitArithmetic ==
    (RouteEnded /\ PreconditionsHold /\ FirstFailedLeg = 0 /\ ~GuardTrips) =>
        /\ rtResult.kind = "returned"
        /\ rtResult.ok
        /\ rtResult.outAtomic = ChainLeg3.dyAtomic
        /\ rtResult.profitAtomic = ChainProfit
        /\ rtResult.profitPct.num * InputDx
             = ChainProfit * 100 * rtResult.profitPct.den

\* the preconditions the call violates, each named by its failure reason
ViolatedPreconditions ==
    (IF rtPools.kind = "missing" \/ rtPools.len # 3
     THEN {"need-3-pools"} ELSE {})
    \cup (IF ~rtArgs.tokensAreStrings THEN {"missing-mints"} ELSE {})
    \cup (IF rtArgs.dxAtomic.kind # "num" \/ rtArgs.dxAtomic.halves <= 0
          THEN {"missing-dx"} ELSE {})
    \cup (IF rtArgs.maxImpactPct \in {"null", "NaN", "text"}
          THEN {"missing-max-impact"} ELSE {})
    \cup (IF /\ rtPools.kind # "missing"
             /\ rtPools.len = 3
             /\ solveTriangleOrientation(rtPools.items).kind # "triangle"
          THEN {"invalid-triangle"} ELSE {})

\* C8: a call that violates a precondition returns a failure whose reason
\* is that of a precondition it violates, quotes no leg and throws nothing.
C8_PreconditionFailures ==
    (RouteEnded /\ ViolatedPreconditions # {}) =>
        /\ rtPc = "done"
        /\ rtResult.kind = "returned"
        /\ ~rtResult.ok
        /\ rtResult.reason \in ViolatedPreconditions
        /\ rtQuoteLog = <<>>

\* C22: a route that simulates to a positive profit within the guard and is
\* asked to execute returns ok=true with the legs, outAtomic, profitAtomic
\* and profitPct of the simulation, and with either txSignature (execution
\* succeeded) or execError (build or broadcast failed), never both.
C22_ExecutionKeepsSimulation ==
    (/\ RouteEnded /\ PreconditionsHold /\ FirstFailedLeg = 0
     /\ ~GuardTrips /\ ChainProfit > 0 /\ rtArgs.execute) =>
        /\ rtResult.kind = "returned"
        /\ rtResult.ok
        /\ Len(rtResult.legs) = 3
        /\ rtResult.outAtomic = ChainLeg3.dyAtomic
        /\ rtResult.profitAtomic = ChainProfit
        /\ rtResult.profitPct.num * InputDx
             = ChainProfit * 100 * rtResult.profitPct.den
        /\ rtResult.exec \in {"txSignature", "execError"}

\* ------------------------------------------------------------------------
\* Properties of the reserve enricher (SpecLoader)
\* ------------------------------------------------------------------------

\* C15: after n consecutive 429 responses with no success in between, the
\* delay handle429 sets is min(60000, 250 * 2^min(10, n)) ms: 2000 ms for
\* n = 3, 60000 ms for every n >= 8; it never exceeds 60000 ms and never
\* decreases as n grows.
C15_BackoffDelay ==
    [][ldRateLimiter'.consecutive429s = ldRateLimiter.consecutive429s + 1 =>
         LET n == ldRateLimiter'.consecutive429s
             delay == ldRateLimiter'.backoff
         IN /\ delay = Min(60000, 250 * 2 ^ Min(10, n))
            /\ (n = 3 => delay = 2000)
            /\ (n >= 8 => delay = 60000)
            /\ delay <= 60000
            /\ (n > 1 => delay >= ldRateLimiter.backoff)]_vars

\* eight rate-limit hits in a row have been answered with the capped delay
C15_Witness ==
    /\ ldResponse = "429"
    /\ ldRateLimiter.consecutive429s >= 8
    /\ ldRateLimiter.backoff = 60000

\* C16: in fetchAccountsBatched every successful read sets the consecutive
\* rate-limit counter to 0, so that the first rate-limit hit after a success
\* gives the one-hit delay of 500 ms; a failure that is no rate-limit
\* response leaves the counter unchanged.
C16_SuccessResetsCounter ==
    [][ldPc = "fetch" =>
         /\ (ldResponse' = "ok" => ldRateLimiter'.consecutive429s = 0)
         /\ (ldResponse = "ok" => ldRateLimiter.consecutive429s = 0)
         /\ (ldResponse' = "429" /\ ldRateLimiter.consecutive429s = 0
                => ldRateLimiter'.backoff = 500)
         /\ (ldResponse' = "error"
                => ldRateLimiter'.consecutive429s
                      = ldRateLimiter.consecutive429s)]_vars

\* a batch was rate-limited three times, a later read succeeded, and the
\* read after that is rate-limited for the first time
C16_Witness ==
    /\ ldResponse = "429"
    /\ ldRateLimiter.consecutive429s = 1
    /\ ldRateLimiter.backoff = 500
    /\ Cardinality(ldAttempted) = 3
    /\ ~ldResults[1].present
    /\ ldResults[2].present

\* the first indices of the batches of n pubkeys
BatchStarts(n, batchSize) ==
    { i \in 1..n : \E b \in 0..n : i = 1 + b * batchSize }

Decoded(account) == account.present /\ account.len >= 72

\* C17: a failed batch read, an absent vault account or a payload shorter
\* than 72 bytes never aborts enrichReserves: the call goes on to its end,
\* every batch is attempted, and every pool whose vault data decoded is
\* updated.
C17_FailuresNeverAbort ==
    /\ ldPc \in {"off", "idle", "fetch", "process", "hydrate", "final",
                 "done"}
    /\ ldPc \in {"idle", "fetch", "process", "hydrate", "final"}
          => ENABLED NextLoader
    /\ ldPc \in {"process", "hydrate", "final", "done"}
          => BatchStarts(Len(ldPubkeyList), ldOptions.batchSize)
                \subseteq ldAttempted
    /\ ldPc = "done"
          => \A i \in 1..Len(ldPubkeyList) :
                Decoded(ldResults[i]) =>
                   \A k \in 1..Len(ldPools) :
                      /\ (ldPools[k].xVault = ldPubkeyList[i]
                            /\ ldPools[k].reserveSource # "cache"
                            /\ ldPools[k].yVault # 0
                          => /\ ldPools[k].xReserve = Str(ldResults[i].amount)
                             /\ ldPools[k].reserveSource = "fresh")
                      /\ (ldPools[k].yVault = ldPubkeyList[i]
                            /\ ldPools[k].reserveSource # "cache"
                            /\ ldPools[k].xVault # 0
                          => /\ ldPools[k].yReserve = Str(ldResults[i].amount)
                             /\ ldPools[k].reserveSource = "fresh")

\* the call is over; the first batch could not be read, the second held a
\* payload of 71 bytes, the third decoded and its pool was updated
C17_Witness ==
    /\ ldPc = "done"
    /\ Len(ldPubkeyList) = 3
    /\ ldOptions.batchSize = 1
    /\ ldAttempted = {1, 2, 3}
    /\ ~ldResults[1].present
    /\ ldResults[2].present /\ ldResults[2].len < 72
    /\ Decoded(ldResults[3])
    /\ ldResponse = "ok"
    /\ \E k \in 1..Len(ldPools) : ldPools[k].reserveSource = "fresh"

\* C19: after enrichReserves every pool carries a reserveSource among fresh,
\* cache, partial, none and an isMathReady flag; a cpmm or dlmm pool is
\* math-ready exactly when both reserves are present and positive, a clmm or
\* whirlpool pool is math-ready with or without reserves.
ReservesPresentAndPositive(pool) ==
    /\ pool.xReserve.kind # "absent" /\ pool.xReserve.val > 0
    /\ pool.yReserve.kind # "absent" /\ pool.yReserve.val > 0

C19_SourceAndMathReady ==
    ldPc = "done" =>
       \A k \in 1..Len(ldPools) :
          LET pool == ldPools[k]
          IN /\ pool.reserveSource \in {"fresh", "cache", "partial", "none"}
             /\ pool.isMathReady.has
             /\ pool.type \in {"cpmm", "dlmm"}
                   => (pool.isMathReady.v <=> ReservesPresentAndPositive(pool))
             /\ pool.type \in {"clmm", "whirlpool"} => pool.isMathReady.v

\* ------------------------------------------------------------------------
\* Properties of the pool validator (SpecValidate)
\* ------------------------------------------------------------------------

HasAddress(pool) == pool.poolAddress # ""
HasMints(pool) == pool.baseMint # 0 /\ pool.quoteMint # 0
HasDecimals(pool) == pool.baseDecimals.has /\ pool.quoteDecimals.has
NeedsReserves(pool) == pool.type \in {"cpmm", "dlmm"}

Usable(pool) ==
    /\ HasAddress(pool)
    /\ HasMints(pool)
    /\ HasDecimals(pool)
    /\ NeedsReserves(pool) => ReservesPresentAndPositive(pool)

CountOf(pools, Cond(_)) == Cardinality({ k \in 1..Len(pools) : Cond(pools[k]) })

DroppedForDecimals(pool) ==
    HasAddress(pool) /\ HasMints(pool) /\ ~HasDecimals(pool)

DroppedForReserves(pool) ==
    /\ HasAddress(pool) /\ HasMints(pool) /\ HasDecimals(pool)
    /\ NeedsReserves(pool) /\ ~ReservesPresentAndPositive(pool)

DroppedForAddress(pool) == ~HasAddress(pool)

DroppedForMints(pool) == HasAddress(pool) /\ ~HasMints(pool)

ExplicitType(p) ==
    toLowerCase(Coalesce(p.type, Coalesce(p.poolType,
                   Coalesce(p.raw.type, Text(<<>>)))).v)

\* the name of the DEX of a pool, lower-cased; <<>> when none is given
DexName(p) == toLowerCase(Coalesce(p.dex, Coalesce(p.raw.dex, Text(<<>>))).v)

HasBinStep(p) == p.binStep # 0 \/ p.raw.bin_step # 0

HasTickSpacing(p) == p.tickSpacing # 0

KindOfWord(w) ==
    CASE w = Cpmm -> "cpmm" [] w = Dlmm -> "dlmm" [] w = Clmm -> "clmm"
      [] w = Whirlpool -> "whirlpool" [] OTHER -> ""

\* C20: normalizeType always returns one of cpmm, dlmm, clmm, whirlpool; an
\* explicit type decides first; without an explicit type the DEX name
\* decides (meteora: dlmm, orca: whirlpool); then binStep (dlmm), then
\* tickSpacing (whirlpool); otherwise cpmm.
C20_ResolutionOrder ==
    ntPc = "done" =>
       /\ ntResult \in {"cpmm", "dlmm", "clmm", "whirlpool"}
       /\ KindOfWord(ExplicitType(ntPool)) # ""
             => ntResult = KindOfWord(ExplicitType(ntPool))
       /\ ExplicitType(ntPool) = <<>>
             => ntResult =
                   IF includes(DexName(ntPool), Meteora) THEN "dlmm"
                   ELSE IF includes(DexName(ntPool), Orca) THEN "whirlpool"
                   ELSE IF HasBinStep(ntPool) THEN "dlmm"
                   ELSE IF HasTickSpacing(ntPool) THEN "whirlpool"
                   ELSE "cpmm"

\* ------------------------------------------------------------------------
\* Further properties of the reserve enricher (SpecLoader)
\* ------------------------------------------------------------------------

\* C29: a pool tagged fresh has had both reserves written from decoded vault
\* accounts of this run; a pool with only one decoded vault is not tagged
\* fresh; every vault is requested once and its balance reaches every pool
\* that references it.
VaultDecoded(v) ==
    \E i \in 1..Len(ldPubkeyList) :
       ldPubkeyList[i] = v /\ Decoded(ldResults[i])

C29_FreshMeansBothSides ==
    ldPc = "done" =>
       /\ \A k \in 1..Len(ldPools) :
             ldPools[k].reserveSource = "fresh"
                => VaultDecoded(ldPools[k].xVault)
                      /\ VaultDecoded(ldPools[k].yVault)
       /\ \A i, j \in 1..Len(ldPubkeyList) :
             ldPubkeyList[i] = ldPubkeyList[j] => i = j

\* C30: fetchAccountsBatched terminates: every read moves on to the next
\* batch or to one more retry of the same batch, a batch is read at most 3
\* times, it is retried only after a 429, any other error abandons it, the
\* retry count starts from 0 for each batch, the entries of an abandoned
\* batch stay null and nothing is raised to the caller.
C30_BoundedRetries ==
    [][ldPc = "fetch" =>
         /\ ldRetries < 3 /\ ldRetries' < 3
         /\ ldI <= Len(ldPubkeyList)
         /\ ldPc' \in {"fetch", "process"}
         /\ \/ ldI' > ldI /\ ldRetries' = 0
            \/ /\ ldI' = ldI /\ ldPc' = "fetch"
               /\ ldRetries' = ldRetries + 1
               /\ ldResponse' = "429"
         /\ ldResponse' = "error" => ldI' > ldI
         /\ ldResponse' # "ok" /\ ldI' > ldI
               => \A j \in BatchIndices(ldI, Len(ldPubkeyList),
                                        ldOptions.batchSize) :
                     ldResults'[j] = NoAccount]_vars

\* the first batch was read three times and given up, its entry is null,
\* and the second batch is about to be read for the first time
C30_Witness ==
    /\ ldPc = "fetch"
    /\ ldOptions.batchSize = 1
    /\ ldI = 2
    /\ ldRetries = 0
    /\ ldResponse = "429"
    /\ ldRateLimiter.consecutive429s = 3
    /\ ldResults[1] = NoAccount

\* ------------------------------------------------------------------------
\* Properties of the rate limiter in time (SpecLimiter)
\* ------------------------------------------------------------------------

\* C24: in every interleaving, two concurrent runs included, a read starts
\* at least minDelay after the previous read started (lastCall is the start
\* of the previous read) and not before the backoff deadline has passed.
C24_ReadsSpacedAndBackedOff ==
    [][\A r \in Runs :
          rlRun[r].pc # "reading" /\ rlRun'[r].pc = "reading"
             => /\ rlClock - rlLimiter.lastCall >= minDelay
                /\ rlLimiter.backoffUntil <= rlClock]_vars

\* ------------------------------------------------------------------------
\* Properties of the leg simulator (SpecLeg)
\* ------------------------------------------------------------------------

LegAmount == FloorOfHalves(slCall.dxHalves)

\* C21: a leg succeeds only with a live adapter quote of positive output, and
\* is then marked isSdkVerified; every other leg with a positive amount fails,
\* a clmm or whirlpool leg with '<type>-sdk-failed' and any other leg with
\* 'no-simulation-method'.
C21_LiveQuoteOrTypedFailure ==
    slResult.returned /\ LegAmount > 0 =>
       IF slResult.ok
       THEN /\ slQuote.quoted /\ slQuote.found /\ slQuote.dyAtomic > 0
            /\ slResult.dyAtomic = slQuote.dyAtomic
            /\ slResult.isSdkVerified
       ELSE slResult.reason =
               IF slCall.pool.type \in {"clmm", "whirlpool"}
               THEN SdkFailedReason(slCall.pool.type)
               ELSE "no-simulation-method"

\* the decimals of the mint a leg sells and of the mint it buys
DecimalsOfInput(c) ==
    IF c.inputMint = c.pool.baseMint THEN c.pool.baseDecimals
    ELSE c.pool.quoteDecimals

DecimalsOfOutput(c) ==
    IF c.inputMint = c.pool.baseMint THEN c.pool.quoteDecimals
    ELSE c.pool.baseDecimals

\* C25: no leg succeeds whose input mint is neither mint of the pool or whose
\* pool lacks a decimals value, and the decimals a successful leg scales its
\* human amounts by are those of its input and of its output mint.
C25_NoDefaultDirectionOrDecimals ==
    slResult.ok =>
       /\ slCall.inputMint \in {slCall.pool.baseMint, slCall.pool.quoteMint}
       /\ slCall.pool.baseDecimals.has /\ slCall.pool.quoteDecimals.has
       /\ slResult.inDecimals = DecimalsOfInput(slCall).v
       /\ slResult.outDecimals = DecimalsOfOutput(slCall).v

\* the adapter written for a pool type; none is written for whirlpool
OwnAdapter(type) ==
    IF type = "dlmm" THEN "DLMMAdapter"
    ELSE IF type = "clmm" THEN "CLMMAdapter"
    ELSE IF type = "cpmm" THEN "CPMMAdapter"
    ELSE ""

SentToOwnAdapter(type, call) ==
    call.called =>
       IF OwnAdapter(type) = ""
       THEN ~call.quoted /\ ~call.found
       ELSE call.adapter = OwnAdapter(type)

\* C26: every pool goes to the adapter of its own type, and a pool of a type
\* without an adapter gets no quote.
C26_DispatchByOwnType ==
    /\ SentToOwnAdapter(slCall.pool.type, slProbe)
    /\ SentToOwnAdapter(slCall.pool.type, slQuote)

\* what CPMMAdapter.quoteExactIn(dxA, swapForY) answers for the pool
CpmmFormula(c) ==
    quoteExactIn(CpmmConstructed(c.pool), Some(NatDigits(LegAmount)),
                 c.inputMint = c.pool.baseMint, NoInt)

\* C27: the adapter is given the floored amount and the direction of the
\* input mint, so a cpmm pool with positive reserves and both decimals, once
\* its adapter is asked for a positive amount, yields a successful leg whose
\* dyAtomic is the output of the cpmm formula.
C27_CpmmLegSucceeds ==
    /\ slResult.returned /\ LegAmount > 0
    /\ slCall.preferSdk
    /\ slCall.pool.type = "cpmm"
    /\ slCall.inputMint \in {slCall.pool.baseMint, slCall.pool.quoteMint}
    /\ CpmmFormula(slCall).status = "success"
    /\ slProbe.quoted
    => /\ slProbe.inAmountLamports = LegAmount
       /\ slProbe.swapForY = (slCall.inputMint = slCall.pool.baseMint)
       /\ slResult.ok
       /\ NatDigits(slResult.dyAtomic) = CpmmFormula(slCall).outAmountRaw

\* the counters add up to the calls that got past the amount test
Accounted ==
    /\ slStats.sdkSuccess <= slStats.sdkCalls
    /\ slStats.mathSuccess <= slStats.mathCalls
    /\ slStats.sdkSuccess + slStats.mathSuccess + slStats.failures
          = slCompleted

\* C28: sdkSuccess <= sdkCalls and mathSuccess <= mathCalls; the successes and
\* failures add up to the completed calls whose floored amount is positive; a
\* call with an amount <= 0 returns ok = false and leaves the counters; after
\* resetStats all five counters are 0.
C28_CounterDiscipline ==
    [][/\ Accounted'
       /\ slStats' # slStats
             => slCompleted' = slCompleted + 1 \/ slStats' = NewStats
       /\ slCompleted' = 0 => slStats' = NewStats
       /\ slResult'.returned /\ FloorOfHalves(slCall'.dxHalves) <= 0
             => ~slResult'.ok /\ slResult'.reason = "dxAtomic <= 0"]_vars

\* two calls were counted, one a success and one a failure behind an sdk
\* call, and the call after them came with half an atomic unit
C28_Witness ==
    /\ slCompleted = 2
    /\ slStats.sdkCalls = 2 /\ slStats.sdkSuccess = 1
    /\ slStats.failures = 1
    /\ slCall.dxHalves = 1
    /\ slResult.returned /\ ~slResult.ok

====
